---------------------------- MODULE Spec2Model ----------------------------
(***************************************************************************)
(* Metadata resolution and batch renaming of mobile application packages.  *)
(*                                                                         *)
(* The module models                                                       *)
(*   - sanitize_filename, get_unique_filename and the three phases of      *)
(*     main() of final_renamer_fixed.py (parallel analysis, sequential     *)
(*     renaming, sequential icon extraction),                              *)
(*   - extract_ipa_icon of final_renamer_fixed.py,                         *)
(*   - analyze_apk_comprehensive and analyze_ipa_comprehensive of          *)
(*     comprehensive_analysis.py.                                          *)
(*                                                                         *)
(* A Python str is a sequence of one-character strings.                    *)
(***************************************************************************)
EXTENDS Integers, Sequences, FiniteSets, TLC

VARIABLES
    \* sanitize_filename applied twice to one input
    san_pc, san_in, san_out, san_again,
    \* analyze_apk_comprehensive: position, result['methods'] in insertion order,
    \* best_method (0 for None) and the final fields of result
    apk_pc, apk_methods, apk_best, apk_final,
    \* analyze_ipa_comprehensive: position, result['methods'] in insertion order,
    \* the final fields of result, whether result['error'] is set, the
    \* entries of info_files[:5] other than main_info_file still to be read, and
    \* the steps that raised an exception
    ipa_pc, ipa_methods, ipa_final, ipa_error, ipa_alts, ipa_raised,
    \* extract_ipa_icon: position, icon_files in the order of the archive, the
    \* index of the entry the loop is at, best_icon (an index of icon_files, 0
    \* for None), best_resolution, and the entries copied to the icons directory
    icon_pc, icon_files, icon_i, best_icon, best_resolution, icon_copied,
    \* the base name of one result resolved by main: position, the result and
    \* app_name after the fallbacks
    name_pc, name_result, name_app,
    \* main of final_renamer_fixed.py
    pc,                  \* the phase main is in
    files_to_process,    \* the package files listed at the start, in listing order
    disk,                \* the package files of the directory: name -> content
    worker,              \* the state of the future of each file
    future,              \* what the future of each file holds once done
    processing_results,  \* the results in the order as_completed yielded them
    existing_files,      \* the registry of names
    rename_pc,           \* the position inside one turn of the rename loop
    safe_name, extension, new_filename, attempt,
    rename_results,      \* the results the rename loop is through with
    icon_j,              \* the results the icon loop is through with
    icons_dir,           \* the icon files written: path -> content
    \* the target name of one result and its rename: position, the result, the
    \* registry, new_filename and the names of the package files of the directory
    tgt_pc, tgt_result, tgt_existing, tgt_filename, tgt_disk,
    \* the temporary directories of the extraction calls that run side by side:
    \* the position and the function of each call, the directory it was given
    \* (0 for none), and the directories that exist, each with its entries
    ws_pc, ws_kind, ws_dir, ws_tmp,
    \* main of comprehensive_analysis.py: position, the package files listed,
    \* the state of the future of each file, what it holds once done, and the
    \* results in the order as_completed yielded them
    an_pc, an_files, an_worker, an_future, analysis_results,
    \* extract_apk_icon: position, icon_files in the order of the aapt output,
    \* the index of the entry the loop is at, best_icon (an index of icon_files,
    \* 0 for None), best_size, and the entries written to the icons directory
    apk_icon_pc, apk_icon_files, apk_icon_i, apk_best_icon, best_size, apk_icon_written,
    \* main of p_optimized.py: the phase, the package files listed, the
    \* directory (name -> content), the state of the task of each file, the pool
    \* process that runs it (0 for none), renamed_files of every process (0 is
    \* the main process), new_filename of each task, what each future holds,
    \* processing_results and rename_results
    po_pc, po_files, po_disk, po_worker, po_process, renamed_files, po_new_filename,
    po_future, po_processing_results, po_rename_results,
    \* process_ipa_metadata of p_fixed.py: position, what the archive holds, the
    \* local names the call has bound, and the dictionary it returns
    fipa_pc, fipa_archive, fipa_locals, fipa_result,
    \* main of p_fixed.py: the phase, the package files listed, the directory
    \* (name -> content), the state of the future of each file and what it holds,
    \* processing_results, used_names, the position inside one turn of the
    \* rename loop, new_filename, and rename_results
    pf_pc, pf_files, pf_disk, pf_worker, pf_future, pf_processing_results, used_names,
    pf_rename_pc, pf_new_filename, pf_rename_results

sanVars == <<san_pc, san_in, san_out, san_again>>
apkVars == <<apk_pc, apk_methods, apk_best, apk_final>>
ipaVars == <<ipa_pc, ipa_methods, ipa_final, ipa_error, ipa_alts, ipa_raised>>
iconVars == <<icon_pc, icon_files, icon_i, best_icon, best_resolution, icon_copied>>
nameVars == <<name_pc, name_result, name_app>>
batchVars ==
    <<pc, files_to_process, disk, worker, future, processing_results, existing_files,
      rename_pc, safe_name, extension, new_filename, attempt, rename_results, icon_j,
      icons_dir>>

tgtVars == <<tgt_pc, tgt_result, tgt_existing, tgt_filename, tgt_disk>>
wsVars == <<ws_pc, ws_kind, ws_dir, ws_tmp>>
anVars == <<an_pc, an_files, an_worker, an_future, analysis_results>>
apkIconVars ==
    <<apk_icon_pc, apk_icon_files, apk_icon_i, apk_best_icon, best_size, apk_icon_written>>
fipaVars == <<fipa_pc, fipa_archive, fipa_locals, fipa_result>>
fixedVars ==
    <<pf_pc, pf_files, pf_disk, pf_worker, pf_future, pf_processing_results, used_names,
      pf_rename_pc, pf_new_filename, pf_rename_results>>
poolVars ==
    <<po_pc, po_files, po_disk, po_worker, po_process, renamed_files, po_new_filename,
      po_future, po_processing_results, po_rename_results>>

vars == <<sanVars, apkVars, ipaVars, iconVars, nameVars, batchVars, tgtVars, wsVars, anVars, apkIconVars, poolVars, fipaVars, fixedVars>>

-----------------------------------------------------------------------------
(* Bounds of the model *)

\* longest input string given to sanitize_filename
MaxLen == 3

\* most entries ending in Info.plist that an Apple archive holds
MaxInfoFiles == 3

\* most candidate icon entries that an Apple archive holds
MaxIcons == 3

\* most package files in the directory of one batch
MaxFiles == 2

-----------------------------------------------------------------------------
(* Strings *)

\* every string over alphabet of length at most n
StringsUpTo(alphabet, n) == UNION {[1..k -> alphabet] : k \in 0..n}

\* str.replace(c, r) for a single character c and a single character r, over
\* every character of a set
ReplaceChars(s, chars, r) == [i \in 1..Len(s) |-> IF s[i] \in chars THEN r ELSE s[i]]

\* str.split(sep) for a single-character separator: a non-empty sequence of pieces
RECURSIVE Split(_, _)
Split(s, sep) ==
    IF \A i \in 1..Len(s) : s[i] # sep
    THEN <<s>>
    ELSE LET k == CHOOSE i \in 1..Len(s) : s[i] = sep /\ \A j \in 1..(i-1) : s[j] # sep
         IN  <<SubSeq(s, 1, k-1)>> \o Split(SubSeq(s, k+1, Len(s)), sep)

\* filter(None, pieces): the non-empty pieces, in order
RECURSIVE FilterNonEmpty(_)
FilterNonEmpty(pieces) ==
    IF pieces = <<>> THEN <<>>
    ELSE (IF Head(pieces) = <<>> THEN <<>> ELSE <<Head(pieces)>>) \o FilterNonEmpty(Tail(pieces))

\* sep.join(pieces)
RECURSIVE Join(_, _)
Join(pieces, sep) ==
    IF pieces = <<>> THEN <<>>
    ELSE IF Len(pieces) = 1 THEN Head(pieces)
    ELSE Head(pieces) \o <<sep>> \o Join(Tail(pieces), sep)

\* the whitespace str.strip() removes (of the characters the model uses)
Whitespace == {" "}

\* str.strip()
RECURSIVE Strip(_)
Strip(s) ==
    IF s = <<>> THEN s
    ELSE IF s[1] \in Whitespace THEN Strip(Tail(s))
    ELSE IF s[Len(s)] \in Whitespace THEN Strip(SubSeq(s, 1, Len(s) - 1))
    ELSE s

-----------------------------------------------------------------------------
(* The state of a component that a specification does not run *)

\* the empty str
Empty == <<>>

\* result = {'methods': {}, 'final_name': '', ..., 'confidence': 0}
NoFinal == [final_name |-> Empty, final_version |-> Empty, final_package |-> Empty, confidence |-> 0]

SanIdle == san_pc = "idle" /\ san_in = <<>> /\ san_out = <<>> /\ san_again = <<>>

ApkIdle == apk_pc = "idle" /\ apk_methods = <<>> /\ apk_best = 0 /\ apk_final = NoFinal

IpaIdle ==
    /\ ipa_pc = "idle" /\ ipa_methods = <<>> /\ ipa_final = NoFinal
    /\ ipa_error = FALSE /\ ipa_alts = 0 /\ ipa_raised = {}

IconIdle ==
    /\ icon_pc = "idle" /\ icon_files = <<>> /\ icon_i = 0 /\ best_icon = 0
    /\ best_resolution = 0 /\ icon_copied = <<>>

NameIdle == name_pc = "idle" /\ name_result = <<>> /\ name_app = <<>>

BatchIdle ==
    /\ pc = "idle" /\ files_to_process = <<>> /\ disk = <<>> /\ worker = <<>>
    /\ future = <<>> /\ processing_results = <<>> /\ existing_files = {}
    /\ rename_pc = "idle" /\ safe_name = <<>> /\ extension = <<>> /\ new_filename = <<>>
    /\ attempt = 0 /\ rename_results = <<>> /\ icon_j = 0 /\ icons_dir = <<>>

TgtIdle ==
    /\ tgt_pc = "idle" /\ tgt_result = <<>> /\ tgt_existing = {} /\ tgt_filename = <<>>
    /\ tgt_disk = {}

WsIdle == ws_pc = <<>> /\ ws_kind = <<>> /\ ws_dir = <<>> /\ ws_tmp = <<>>

AnIdle ==
    /\ an_pc = "idle" /\ an_files = <<>> /\ an_worker = <<>> /\ an_future = <<>>
    /\ analysis_results = <<>>

ApkIconIdle ==
    /\ apk_icon_pc = "idle" /\ apk_icon_files = <<>> /\ apk_icon_i = 0
    /\ apk_best_icon = 0 /\ best_size = 0 /\ apk_icon_written = <<>>

PoolIdle ==
    /\ po_pc = "idle" /\ po_files = <<>> /\ po_disk = <<>> /\ po_worker = <<>>
    /\ po_process = <<>> /\ renamed_files = <<>> /\ po_new_filename = <<>>
    /\ po_future = <<>> /\ po_processing_results = <<>> /\ po_rename_results = <<>>

FipaIdle ==
    /\ fipa_pc = "idle" /\ fipa_archive = <<>> /\ fipa_locals = <<>> /\ fipa_result = <<>>

FixedIdle ==
    /\ pf_pc = "idle" /\ pf_files = <<>> /\ pf_disk = <<>> /\ pf_worker = <<>>
    /\ pf_future = <<>> /\ pf_processing_results = <<>> /\ used_names = {}
    /\ pf_rename_pc = "idle" /\ pf_new_filename = <<>> /\ pf_rename_results = <<>>

-----------------------------------------------------------------------------
(* sanitize_filename *)

\* invalid_chars
InvalidChars == {"<", ">", ":", "\"", "/", "\\", "|", "?", "*"}

sanitize_filename(name) ==
    LET replaced == ReplaceChars(name, InvalidChars, "_")
        joined   == Join(FilterNonEmpty(Split(replaced, "_")), "_")
    IN  Strip(joined)

\* characters of the names given to sanitize_filename
SanAlphabet == {"a", "_", " ", ":"}

SanInit ==
    /\ san_pc = "start"
    /\ san_in \in StringsUpTo(SanAlphabet, MaxLen)
    /\ san_out = <<>>
    /\ san_again = <<>>

\* safe_name = sanitize_filename(app_name)
SanitizeOnce ==
    /\ san_pc = "start"
    /\ san_out' = sanitize_filename(san_in)
    /\ san_pc' = "once"
    /\ UNCHANGED <<san_in, san_again, apkVars, ipaVars, iconVars, nameVars, batchVars, tgtVars, wsVars, anVars, apkIconVars, poolVars, fipaVars, fixedVars>>

\* the sanitized name given to sanitize_filename again
SanitizeAgain ==
    /\ san_pc = "once"
    /\ san_again' = sanitize_filename(san_out)
    /\ san_pc' = "twice"
    /\ UNCHANGED <<san_in, san_out, apkVars, ipaVars, iconVars, nameVars, batchVars, tgtVars, wsVars, anVars, apkIconVars, poolVars, fipaVars, fixedVars>>

SanNext == SanitizeOnce \/ SanitizeAgain

\* the specification of sanitize_filename applied twice
SanSpecInit == SanInit /\ ApkIdle /\ IpaIdle /\ IconIdle /\ NameIdle /\ BatchIdle /\ TgtIdle /\ WsIdle /\ AnIdle /\ ApkIconIdle /\ PoolIdle /\ FipaIdle /\ FixedIdle

SpecSanitize == SanSpecInit /\ [][SanNext]_vars

\* C3: sanitize_filename is idempotent: sanitizing a sanitized name returns it
\* unchanged.
C3_SanitizeIdempotent == san_pc = "twice" => san_again = san_out

-----------------------------------------------------------------------------
(* analyze_apk_comprehensive *)

\* dict.get(key, default) of one entry of result['methods']: an entry is a record
\* whose field keys names the keys the dict holds
Get(data, key, default) == IF key \in data.keys THEN data[key] ELSE default

\* result['methods'][m] = {'error': str(e), 'confidence': 0}
ErrorEntry(m) ==
    [method |-> m, keys |-> {"error", "confidence"}, label |-> Empty, package |-> Empty,
     version |-> Empty, app_name |-> Empty, confidence |-> 0]

\* 3 if label and package else 1
BadgingConfidence(label, package) == IF label # Empty /\ package # Empty THEN 3 ELSE 1

\* result['methods']['aapt'] of a badging output with the parsed fields
BadgingEntry(label, package, version) ==
    [method |-> "aapt", keys |-> {"label", "package", "version", "confidence"},
     label |-> label, package |-> package, version |-> version, app_name |-> Empty,
     confidence |-> BadgingConfidence(label, package)]

\* 2 if app_name else 0
AppNameConfidence(app_name) == IF app_name # Empty THEN 2 ELSE 0

\* result['methods'][m] of the resource dump and of the manifest scan
AppNameEntry(m, app_name) ==
    [method |-> m, keys |-> {"app_name", "confidence"}, label |-> Empty, package |-> Empty,
     version |-> Empty, app_name |-> app_name, confidence |-> AppNameConfidence(app_name)]

\* the fields a badging output can carry, and the names the other scans find
ApkLabels == {Empty, <<"A">>}
ApkPackages == {Empty, <<"p">>}
ApkVersions == {Empty, <<"1">>}
ResourceNames == {Empty, <<"R">>}
ManifestNames == {Empty, <<"M">>}

ApkInit == apk_pc = "aapt" /\ apk_methods = <<>> /\ apk_best = 0 /\ apk_final = NoFinal

\* Method 1: aapt dump badging, or the exception it raises
ApkBadging ==
    /\ apk_pc = "aapt"
    /\ \/ \E l \in ApkLabels, p \in ApkPackages, v \in ApkVersions :
             apk_methods' = Append(apk_methods, BadgingEntry(l, p, v))
       \/ apk_methods' = Append(apk_methods, ErrorEntry("aapt"))
    /\ apk_pc' = "aapt_resources"
    /\ UNCHANGED <<apk_best, apk_final, sanVars, ipaVars, iconVars, nameVars, batchVars, tgtVars, wsVars, anVars, apkIconVars, poolVars, fipaVars, fixedVars>>

\* Method 2: aapt dump resources, or the exception it raises
ApkResources ==
    /\ apk_pc = "aapt_resources"
    /\ \/ \E n \in ResourceNames :
             apk_methods' = Append(apk_methods, AppNameEntry("aapt_resources", n))
       \/ apk_methods' = Append(apk_methods, ErrorEntry("aapt_resources"))
    /\ apk_pc' = "manifest"
    /\ UNCHANGED <<apk_best, apk_final, sanVars, ipaVars, iconVars, nameVars, batchVars, tgtVars, wsVars, anVars, apkIconVars, poolVars, fipaVars, fixedVars>>

\* Method 3: the manifest dump scanned for android:label, or the exception raised
ApkManifest ==
    /\ apk_pc = "manifest"
    /\ \/ \E n \in ManifestNames :
             apk_methods' = Append(apk_methods, AppNameEntry("manifest", n))
       \/ apk_methods' = Append(apk_methods, ErrorEntry("manifest"))
    /\ apk_pc' = "best"
    /\ UNCHANGED <<apk_best, apk_final, sanVars, ipaVars, iconVars, nameVars, batchVars, tgtVars, wsVars, anVars, apkIconVars, poolVars, fipaVars, fixedVars>>

\* a comparison under which an equal confidence replaces the best so far
BetterOrEqual(confidence, best_confidence) == confidence >= best_confidence

\* data['confidence'] > best_confidence
Better(confidence, best_confidence) == confidence > best_confidence

\* the loop over result['methods'].items() from entry i on: <<best_method, best_confidence>>
RECURSIVE BestFrom(_, _, _, _)
BestFrom(methods, i, best_method, best_confidence) ==
    IF i > Len(methods) THEN <<best_method, best_confidence>>
    ELSE IF "confidence" \in methods[i].keys /\ Better(methods[i].confidence, best_confidence)
         THEN BestFrom(methods, i + 1, i, methods[i].confidence)
         ELSE BestFrom(methods, i + 1, best_method, best_confidence)

\* Determine best result
ApkDetermineBest ==
    /\ apk_pc = "best"
    /\ LET best == BestFrom(apk_methods, 1, 0, 0)
       IN  /\ apk_best' = best[1]
           /\ apk_final' =
                 IF best[1] # 0
                 THEN LET method_data == apk_methods[best[1]]
                      IN  [final_name    |-> Get(method_data, "label", Get(method_data, "app_name", Empty)),
                           final_version |-> Get(method_data, "version", Empty),
                           final_package |-> Get(method_data, "package", Empty),
                           confidence    |-> best[2]]
                 ELSE apk_final
    /\ apk_pc' = "done"
    /\ UNCHANGED <<apk_methods, sanVars, ipaVars, iconVars, nameVars, batchVars, tgtVars, wsVars, anVars, apkIconVars, poolVars, fipaVars, fixedVars>>

ApkNext == ApkBadging \/ ApkResources \/ ApkManifest \/ ApkDetermineBest

\* the specification of one analysis of one Android package
ApkSpecInit == ApkInit /\ SanIdle /\ IpaIdle /\ IconIdle /\ NameIdle /\ BatchIdle /\ TgtIdle /\ WsIdle /\ AnIdle /\ ApkIconIdle /\ PoolIdle /\ FipaIdle /\ FixedIdle

SpecApk == ApkSpecInit /\ [][ApkNext]_vars

\* the highest confidence among the recorded candidates
MaxConfidence(methods) ==
    CHOOSE c \in {methods[i].confidence : i \in 1..Len(methods)} :
        \A i \in 1..Len(methods) : methods[i].confidence <= c

\* the earliest candidate, in trial order, that attains the highest confidence
EarliestMax(methods) ==
    CHOOSE i \in 1..Len(methods) :
        /\ methods[i].confidence = MaxConfidence(methods)
        /\ \A j \in 1..(i - 1) : methods[j].confidence < MaxConfidence(methods)

\* the display name of a candidate: its label, else its app_name, else empty
CandidateName(c) ==
    IF c.method = "aapt" THEN c.label ELSE c.app_name

\* C1: when the analysis of an Android package is done, the final confidence is
\* the maximum confidence of the recorded candidates, the final name, version
\* and package are those of the earliest candidate attaining it, and when every
\* candidate has confidence 0 the final name is empty and the confidence is 0.
C1_ApkArbiterMax ==
    apk_pc = "done" =>
        LET e == apk_methods[EarliestMax(apk_methods)]
        IN  /\ apk_final.confidence = MaxConfidence(apk_methods)
            /\ apk_final.final_name = CandidateName(e)
            /\ apk_final.final_version = e.version
            /\ apk_final.final_package = e.package
            /\ (\A i \in 1..Len(apk_methods) : apk_methods[i].confidence = 0)
                   => apk_final.final_name = Empty /\ apk_final.confidence = 0

\* a tie at the highest confidence between the resource dump and the manifest
\* scan, which find different names, has been arbitrated
C1_Witness ==
    /\ apk_pc = "done"
    /\ apk_methods[1].confidence < 2
    /\ apk_methods[2].confidence = 2
    /\ apk_methods[3].confidence = 2
    /\ apk_final.final_name = <<"R">>

\* C8: a candidate with confidence 0 or with an empty label never becomes the
\* final answer unless every candidate has confidence 0, and then the final
\* label is empty and the final confidence is 0.
C8_NoEmptyLabelFinal ==
    apk_pc = "done" =>
        /\ apk_best # 0 =>
              /\ apk_methods[apk_best].confidence > 0
              /\ CandidateName(apk_methods[apk_best]) # Empty
        /\ (\A i \in 1..Len(apk_methods) : apk_methods[i].confidence = 0)
              => apk_final.final_name = Empty /\ apk_final.confidence = 0

-----------------------------------------------------------------------------
(* analyze_ipa_comprehensive *)

\* info_files[:5]
PlistScanLimit == 5

\* x or y, of two str
Or(x, y) == IF x # Empty THEN x ELSE y

\* the values a field of a decoded bundle can have: absent or empty, or a name
FieldValues(v) == {Empty, v}

\* the bundles plistlib.load can return, by the seven fields read from them
Bundles ==
    [CFBundleDisplayName : FieldValues(<<"D">>), CFBundleName : FieldValues(<<"N">>),
     CFBundleExecutable : FieldValues(<<"E">>),
     CFBundleDisplayNameLocalized : FieldValues(<<"L">>),
     CFBundleIdentifier : FieldValues(<<"i">>),
     CFBundleShortVersionString : FieldValues(<<"1">>),
     CFBundleVersion : FieldValues(<<"2">>)]

\* Determine best name: <<best_name, confidence>>
BestName(name_fields) ==
    IF name_fields.CFBundleDisplayName # Empty THEN <<name_fields.CFBundleDisplayName, 4>>
    ELSE IF name_fields.CFBundleName # Empty THEN <<name_fields.CFBundleName, 3>>
    ELSE IF name_fields.CFBundleExecutable # Empty THEN <<name_fields.CFBundleExecutable, 2>>
    ELSE IF name_fields.CFBundleDisplayNameLocalized # Empty
         THEN <<name_fields.CFBundleDisplayNameLocalized, 3>>
    ELSE <<Empty, 0>>

\* result['methods']['main_plist'] of a decoded bundle
MainPlistEntry(name_fields) ==
    [method |-> "main_plist", error |-> FALSE, name_fields |-> name_fields,
     name |-> BestName(name_fields)[1],
     version |-> Or(name_fields.CFBundleShortVersionString, name_fields.CFBundleVersion),
     package |-> name_fields.CFBundleIdentifier,
     confidence |-> BestName(name_fields)[2]]

\* {'error': str(e), 'confidence': 0}
IpaErrorEntry(m) ==
    [method |-> m, error |-> TRUE, name |-> Empty, version |-> Empty, package |-> Empty,
     confidence |-> 0]

\* 3 if display_name else 2 if bundle_name else 0
PlutilConfidence(display_name, bundle_name) ==
    IF display_name # Empty THEN 3 ELSE IF bundle_name # Empty THEN 2 ELSE 0

\* result['methods']['plutil'] of the names parsed from the plutil dump
PlutilEntry(display_name, bundle_name) ==
    [method |-> "plutil", error |-> FALSE, name |-> Or(display_name, bundle_name),
     version |-> Empty,
     package |-> Empty, confidence |-> PlutilConfidence(display_name, bundle_name)]

\* result['methods']['alt_plist_<n>']
AltEntry(alt_name) ==
    [method |-> "alt_plist", error |-> FALSE, name |-> alt_name, version |-> Empty,
     package |-> Empty,
     confidence |-> 2]

\* the names the plutil dump can show, and the names of the other bundles
PlutilDisplayNames == {Empty, <<"P">>}
PlutilBundleNames == {Empty, <<"Q">>}
AltNames == {Empty, <<"X">>, <<"X", "Y">>}

\* the number of entries of info_files[:5] that are not main_info_file, for n
\* entries of which the one at index main is the main one
AltCount(n, main) ==
    Cardinality({i \in 1..n : i <= PlistScanLimit /\ i # main})

IpaInit ==
    /\ ipa_pc = "open" /\ ipa_methods = <<>> /\ ipa_final = NoFinal
    /\ ipa_error = FALSE /\ ipa_alts = 0 /\ ipa_raised = {}

\* the archive is opened and its Info.plist entries listed; none, or an exception
\* of zipfile ("archive") or of the extraction of the main one ("extract"), ends
\* the analysis with result['error']
IpaOpen ==
    /\ ipa_pc = "open"
    /\ \/ /\ ipa_error' = TRUE
          /\ ipa_pc' = "done"
          /\ \/ UNCHANGED ipa_raised
             \/ \E step \in {"archive", "extract"} : ipa_raised' = ipa_raised \cup {step}
          /\ UNCHANGED ipa_alts
       \/ \E n \in 1..MaxInfoFiles, main \in 1..MaxInfoFiles :
             /\ main <= n
             /\ ipa_alts' = AltCount(n, main)
             /\ ipa_pc' = "main_plist"
             /\ UNCHANGED <<ipa_error, ipa_raised>>
    /\ UNCHANGED <<ipa_methods, ipa_final, sanVars, apkVars, iconVars, nameVars, batchVars, tgtVars, wsVars, anVars, apkIconVars, poolVars, fipaVars, fixedVars>>

\* Method 1: the main Info.plist decoded by plistlib, or the exception it raises
IpaMainPlist ==
    /\ ipa_pc = "main_plist"
    /\ \/ \E name_fields \in Bundles :
             LET entry == MainPlistEntry(name_fields)
             IN  /\ ipa_methods' = Append(ipa_methods, entry)
                 /\ ipa_final' = [final_name |-> entry.name, final_version |-> entry.version,
                                  final_package |-> entry.package,
                                  confidence |-> entry.confidence]
                 /\ UNCHANGED ipa_raised
       \/ /\ ipa_methods' = Append(ipa_methods, IpaErrorEntry("main_plist"))
          /\ ipa_raised' = ipa_raised \cup {"main_plist"}
          /\ UNCHANGED ipa_final
    /\ ipa_pc' = "plutil"
    /\ UNCHANGED <<ipa_error, ipa_alts, sanVars, apkVars, iconVars, nameVars, batchVars, tgtVars, wsVars, anVars, apkIconVars, poolVars, fipaVars, fixedVars>>

\* Method 2: plutil -p on the extracted file, or the exception it raises
IpaPlutil ==
    /\ ipa_pc = "plutil"
    /\ \/ /\ \E d \in PlutilDisplayNames, b \in PlutilBundleNames :
                ipa_methods' = Append(ipa_methods, PlutilEntry(d, b))
          /\ UNCHANGED ipa_raised
       \/ /\ ipa_methods' = Append(ipa_methods, IpaErrorEntry("plutil"))
          /\ ipa_raised' = ipa_raised \cup {"plutil"}
    /\ ipa_pc' = "alt_plist"
    /\ UNCHANGED <<ipa_final, ipa_error, ipa_alts, sanVars, apkVars, iconVars, nameVars, batchVars, tgtVars, wsVars, anVars, apkIconVars, poolVars, fipaVars, fixedVars>>

\* Method 3, one turn of the loop: another Info.plist decoded, or the exception
\* that makes the loop continue
IpaAltPlist ==
    /\ ipa_pc = "alt_plist"
    /\ ipa_alts > 0
    /\ ipa_alts' = ipa_alts - 1
    /\ \/ /\ \E alt_name \in AltNames :
                IF alt_name # Empty /\ Len(alt_name) > Len(ipa_final.final_name)
                THEN /\ ipa_methods' = Append(ipa_methods, AltEntry(alt_name))
                     /\ ipa_final' = IF ipa_final.confidence < 2
                                     THEN [ipa_final EXCEPT !.final_name = alt_name,
                                                            !.confidence = 2]
                                     ELSE ipa_final
                ELSE UNCHANGED <<ipa_methods, ipa_final>>
          /\ UNCHANGED ipa_raised
       \/ /\ ipa_raised' = ipa_raised \cup {"alt_plist"}
          /\ UNCHANGED <<ipa_methods, ipa_final>>
    /\ UNCHANGED <<ipa_pc, ipa_error, sanVars, apkVars, iconVars, nameVars, batchVars, tgtVars, wsVars, anVars, apkIconVars, poolVars, fipaVars, fixedVars>>

\* return result
IpaReturn ==
    /\ ipa_pc = "alt_plist"
    /\ ipa_alts = 0
    /\ ipa_pc' = "done"
    /\ UNCHANGED <<ipa_methods, ipa_final, ipa_error, ipa_alts, ipa_raised, sanVars, apkVars, iconVars, nameVars, batchVars, tgtVars, wsVars, anVars, apkIconVars, poolVars, fipaVars, fixedVars>>

IpaNext == IpaOpen \/ IpaMainPlist \/ IpaPlutil \/ IpaAltPlist \/ IpaReturn

\* the specification of one analysis of one Apple package
IpaSpecInit == IpaInit /\ SanIdle /\ ApkIdle /\ IconIdle /\ NameIdle /\ BatchIdle /\ TgtIdle /\ WsIdle /\ AnIdle /\ ApkIconIdle /\ PoolIdle /\ FipaIdle /\ FixedIdle

SpecIpa == IpaSpecInit /\ [][IpaNext]_vars

\* C7: when the analysis of an Apple package is done, the final confidence is the
\* highest confidence among the recorded candidates, and the final name, version
\* and package are all those of the earliest candidate attaining it.
C7_IpaArbiterMax ==
    ipa_pc = "done" /\ ipa_methods # <<>> =>
        LET e == ipa_methods[EarliestMax(ipa_methods)]
        IN  /\ ipa_final.confidence = MaxConfidence(ipa_methods)
            /\ ipa_final.final_name = e.name
            /\ ipa_final.final_version = e.version
            /\ ipa_final.final_package = e.package

\* the method a step that raised belongs to: the extraction of the main
\* Info.plist is what the first method reads
MethodOfStep(step) == IF step = "extract" THEN "main_plist" ELSE step

\* whether a candidate is recorded for a method
Attempted(m) == \E k \in 1..Len(ipa_methods) : ipa_methods[k].method = m

\* C15: when the analysis of an Apple package is done, for every step that
\* raised after the archive was opened (the extraction of the main Info.plist,
\* its decoding, plutil, the reading of another Info.plist) a candidate with
\* confidence 0 and an error note is recorded for its method, and the methods
\* main_plist and plutil were both attempted: no failing method ended the
\* analysis early.
C15_FailingMethodRecorded ==
    ipa_pc = "done" =>
        /\ \A step \in ipa_raised \ {"archive"} :
              \E k \in 1..Len(ipa_methods) :
                  /\ ipa_methods[k].method = MethodOfStep(step)
                  /\ ipa_methods[k].error
                  /\ ipa_methods[k].confidence = 0
        /\ ipa_raised \ {"archive"} # {} => Attempted("main_plist") /\ Attempted("plutil")

\* the first non-empty field in the order display name, localized display
\* name, bundle name, executable name, with the confidence of that field
FirstByPriority(name_fields) ==
    IF name_fields.CFBundleDisplayName # Empty THEN <<name_fields.CFBundleDisplayName, 4>>
    ELSE IF name_fields.CFBundleDisplayNameLocalized # Empty
         THEN <<name_fields.CFBundleDisplayNameLocalized, 3>>
    ELSE IF name_fields.CFBundleName # Empty THEN <<name_fields.CFBundleName, 3>>
    ELSE IF name_fields.CFBundleExecutable # Empty THEN <<name_fields.CFBundleExecutable, 2>>
    ELSE <<Empty, 0>>

\* C16: the candidate of a decoded Apple bundle has the name of the first
\* non-empty field in the order display name (4), localized display name (3),
\* bundle name (3), executable name (2), and the confidence of that field; its
\* version is the short version string when not empty, else the build version,
\* and its package id is the bundle identifier.
C16_BundleFieldPriority ==
    \A k \in 1..Len(ipa_methods) :
        (ipa_methods[k].method = "main_plist" /\ ~ipa_methods[k].error) =>
            LET name_fields == ipa_methods[k].name_fields
            IN  /\ ipa_methods[k].name = FirstByPriority(name_fields)[1]
                /\ ipa_methods[k].confidence = FirstByPriority(name_fields)[2]
                /\ ipa_methods[k].version =
                      (IF name_fields.CFBundleShortVersionString # Empty
                       THEN name_fields.CFBundleShortVersionString
                       ELSE name_fields.CFBundleVersion)
                /\ ipa_methods[k].package = name_fields.CFBundleIdentifier

-----------------------------------------------------------------------------
(* extract_ipa_icon *)

\* the candidate icon entries an archive can hold: an entry whose name shows
\* dimensions WxH (resolution_match), and one whose name shows none, both with
\* the file_size of the entry
DimensionedIcons ==
    [dims : {TRUE}, width : {2, 3}, height : {2, 3}, file_size : {1}]
        \cup [dims : {TRUE}, width : {0}, height : {0}, file_size : {1}]
PlainIcons == [dims : {FALSE}, width : {0}, height : {0}, file_size : {0, 5, 7}]
IconEntries == DimensionedIcons \cup PlainIcons

\* an acceptance of every shape
AnyShape(width, height) == TRUE

\* width == height
IsSquare(width, height) == width = height

IconInit ==
    /\ icon_pc = "list"
    /\ icon_files \in StringsUpTo(IconEntries, MaxIcons)
    /\ icon_i = 0 /\ best_icon = 0 /\ best_resolution = 0 /\ icon_copied = <<>>

\* the archive is opened and its icon entries collected; an exception of zipfile
\* is logged and nothing is extracted
IconList ==
    /\ icon_pc = "list"
    /\ \/ icon_pc' = "loop" /\ icon_i' = 1
       \/ icon_pc' = "done" /\ UNCHANGED icon_i
    /\ UNCHANGED <<icon_files, best_icon, best_resolution, icon_copied,
                   sanVars, apkVars, ipaVars, nameVars, batchVars, tgtVars, wsVars, anVars, apkIconVars, poolVars, fipaVars, fixedVars>>

\* one turn of the loop over icon_files
IconConsider ==
    /\ icon_pc = "loop"
    /\ icon_i <= Len(icon_files)
    /\ LET icon_info == icon_files[icon_i]
           resolution == icon_info.width * icon_info.height
       IN  IF icon_info.dims
           THEN IF IsSquare(icon_info.width, icon_info.height) /\ resolution > best_resolution
                THEN best_resolution' = resolution /\ best_icon' = icon_i
                ELSE UNCHANGED <<best_resolution, best_icon>>
           ELSE IF icon_info.file_size > best_resolution
                THEN best_resolution' = icon_info.file_size /\ best_icon' = icon_i
                ELSE UNCHANGED <<best_resolution, best_icon>>
    /\ icon_i' = icon_i + 1
    /\ UNCHANGED <<icon_pc, icon_files, icon_copied, sanVars, apkVars, ipaVars, nameVars, batchVars, tgtVars, wsVars, anVars, apkIconVars, poolVars, fipaVars, fixedVars>>

\* if best_icon: the entry is extracted and copied to the icons directory; an
\* exception of the extraction or of the copy is logged
IconExtract ==
    /\ icon_pc = "loop"
    /\ icon_i > Len(icon_files)
    /\ \/ icon_copied' = IF best_icon # 0 THEN Append(icon_copied, best_icon) ELSE icon_copied
       \/ best_icon # 0 /\ UNCHANGED icon_copied
    /\ icon_pc' = "done"
    /\ UNCHANGED <<icon_files, icon_i, best_icon, best_resolution, sanVars, apkVars, ipaVars, nameVars, batchVars, tgtVars, wsVars, anVars, apkIconVars, poolVars, fipaVars, fixedVars>>

IconNext == IconList \/ IconConsider \/ IconExtract

\* the specification of one icon extraction from one Apple package
IconSpecInit == IconInit /\ SanIdle /\ ApkIdle /\ IpaIdle /\ NameIdle /\ BatchIdle /\ TgtIdle /\ WsIdle /\ AnIdle /\ ApkIconIdle /\ PoolIdle /\ FipaIdle /\ FixedIdle

SpecIcon == IconSpecInit /\ [][IconNext]_vars

\* an entry whose parsed width differs from its height
NonSquare(icon_info) == icon_info.dims /\ icon_info.width # icon_info.height

\* an entry whose parsed width equals its height
Square(icon_info) == icon_info.dims /\ icon_info.width = icon_info.height

\* C6: the entry selected as best icon, and any entry copied to the icons
\* directory, is never a non-square one when a square candidate exists.
C6_NoNonSquareWhenSquare ==
    (\E k \in 1..Len(icon_files) : Square(icon_files[k])) =>
        /\ best_icon # 0 => ~NonSquare(icon_files[best_icon])
        /\ \A c \in 1..Len(icon_copied) : ~NonSquare(icon_files[icon_copied[c]])

\* a square entry was copied although a non-square one of a greater resolution
\* was listed before it
C6_Witness ==
    /\ icon_pc = "done"
    /\ Len(icon_copied) = 1
    /\ Square(icon_files[icon_copied[1]])
    /\ \E k \in 1..(icon_copied[1] - 1) :
          /\ NonSquare(icon_files[k])
          /\ icon_files[k].width * icon_files[k].height
                > icon_files[icon_copied[1]].width * icon_files[icon_copied[1]].height

\* whether the archive was read and the copy of the chosen entry, if one was
\* chosen, raised no exception
IconNothingRaised ==
    /\ icon_pc = "done"
    /\ icon_i > Len(icon_files)
    /\ best_icon # 0 => icon_copied # <<>>

\* C18: when nothing raised, extract_ipa_icon has written exactly one icon
\* file if the archive has at least one candidate icon entry, and none if it
\* has no candidate; it never writes more than one.
C18_ExactlyOneIcon ==
    /\ Len(icon_copied) <= 1
    /\ IconNothingRaised =>
          /\ icon_files # <<>> => Len(icon_copied) = 1
          /\ icon_files = <<>> => Len(icon_copied) = 0


\* the square entries of a positive area, and the greatest area among them
PositiveSquares ==
    {k \in 1..Len(icon_files) :
        Square(icon_files[k]) /\ icon_files[k].width * icon_files[k].height > 0}

\* C21: dimensions and byte sizes are never compared with each other: once the
\* loop has seen every candidate and at least one has square dimensions of a
\* positive area, the selected entry is a square one of the greatest W*H,
\* whatever the byte sizes of the entries without dimensions and whatever the
\* listing order.
C21_SquareOfMaximalArea ==
    (icon_pc = "loop" /\ icon_i > Len(icon_files) /\ PositiveSquares # {}) =>
        /\ best_icon \in PositiveSquares
        /\ \A k \in PositiveSquares :
              icon_files[k].width * icon_files[k].height
                  <= icon_files[best_icon].width * icon_files[best_icon].height
-----------------------------------------------------------------------------
(* The base name main resolves for one result *)

LowerCase ==
    <<"a", "b", "c", "d", "e", "f", "g", "h", "i", "j", "k", "l", "m",
      "n", "o", "p", "q", "r", "s", "t", "u", "v", "w", "x", "y", "z">>
UpperCase ==
    <<"A", "B", "C", "D", "E", "F", "G", "H", "I", "J", "K", "L", "M",
      "N", "O", "P", "Q", "R", "S", "T", "U", "V", "W", "X", "Y", "Z">>

\* whether a character is a cased letter
IsCased(c) == \E i \in 1..Len(LowerCase) : c = LowerCase[i] \/ c = UpperCase[i]

ToUpper(c) ==
    IF \E i \in 1..Len(LowerCase) : c = LowerCase[i]
    THEN UpperCase[CHOOSE i \in 1..Len(LowerCase) : c = LowerCase[i]]
    ELSE c

ToLower(c) ==
    IF \E i \in 1..Len(UpperCase) : c = UpperCase[i]
    THEN LowerCase[CHOOSE i \in 1..Len(UpperCase) : c = UpperCase[i]]
    ELSE c

\* str.title(): a letter that follows no letter is upper-cased, every other
\* letter lower-cased
Title(s) ==
    [i \in 1..Len(s) |->
        IF i = 1 \/ ~IsCased(s[i - 1]) THEN ToUpper(s[i]) ELSE ToLower(s[i])]

\* str.endswith(suffix)
EndsWith(s, suffix) ==
    Len(s) >= Len(suffix) /\ SubSeq(s, Len(s) - Len(suffix) + 1, Len(s)) = suffix

DotApk == <<".", "a", "p", "k">>
DotIpa == <<".", "i", "p", "a">>

\* os.path.splitext(file)[0] of a file name without a directory: the name up to
\* its last dot, unless only dots precede that dot
Stem(file) ==
    IF \A i \in 1..Len(file) : file[i] # "."
    THEN file
    ELSE LET dot == CHOOSE i \in 1..Len(file) :
                        file[i] = "." /\ \A j \in (i + 1)..Len(file) : file[j] # "."
         IN  IF \E j \in 1..(dot - 1) : file[j] # "." THEN SubSeq(file, 1, dot - 1) ELSE file

\* not s or not s.strip()
IsBlank(s) == Strip(s) = Empty

\* parts[-1] of package.split('.') when it has more than one part, else package
PackageComponent(package) ==
    LET parts == Split(package, ".")
    IN  IF Len(parts) > 1 THEN parts[Len(parts)] ELSE package

\* app_name as main resolves it from result['name'], result['package'] and
\* result['file']
ResolveAppName(result) ==
    LET first == IF IsBlank(result.name)
                 THEN IF ~IsBlank(result.package)
                      THEN Title(ReplaceChars(PackageComponent(result.package), {"_"}, " "))
                      ELSE Stem(result.file)
                 ELSE result.name
        stripped == Strip(first)
    IN  IF stripped = Empty
        THEN <<"A", "p", "p", "_">> \o Stem(result.file)
        ELSE stripped

\* the names, package ids and file names of the results given to the resolution
NameLabels == StringsUpTo({"G", " "}, MaxLen - 1)
NamePackages == StringsUpTo({"c", ".", "_"}, MaxLen)
NameFiles == {<<"h">> \o DotApk, <<" ">> \o DotIpa, DotApk}

NameInit ==
    /\ name_pc = "start"
    /\ name_result \in [name : NameLabels, package : NamePackages, file : NameFiles]
    /\ name_app = <<>>

\* Create new filename with better fallback strategies
ResolveName ==
    /\ name_pc = "start"
    /\ name_app' = ResolveAppName(name_result)
    /\ name_pc' = "done"
    /\ UNCHANGED <<name_result, sanVars, apkVars, ipaVars, iconVars, batchVars, tgtVars, wsVars, anVars, apkIconVars, poolVars, fipaVars, fixedVars>>

NameNext == ResolveName

\* the specification of the resolution of one base name
NameSpecInit == NameInit /\ SanIdle /\ ApkIdle /\ IpaIdle /\ IconIdle /\ BatchIdle /\ TgtIdle /\ WsIdle /\ AnIdle /\ ApkIconIdle /\ PoolIdle /\ FipaIdle /\ FixedIdle

SpecName == NameSpecInit /\ [][NameNext]_vars

\* the last dot-separated component of a package id, underscores replaced by
\* spaces and title-cased
PackageName(package) ==
    LET parts == Split(package, ".")
    IN  Title(ReplaceChars(parts[Len(parts)], {"_"}, " "))

\* the first choice of the chain label, package name, file name stem that is not
\* empty after trimming, trimmed, and the placeholder App_<stem> when all are
ChainName(result) ==
    IF Strip(result.name) # Empty THEN Strip(result.name)
    ELSE IF Strip(PackageName(result.package)) # Empty THEN Strip(PackageName(result.package))
    ELSE IF Strip(Stem(result.file)) # Empty THEN Strip(Stem(result.file))
    ELSE <<"A", "p", "p", "_">> \o Stem(result.file)

\* C10: the base name is the first of label, package name (last component of
\* the package id, underscores to spaces, title-cased) and file name stem that
\* is not empty after trimming, and App_<stem> only when all three are.
C10_FallbackChain == name_pc = "done" => name_app = ChainName(name_result)

-----------------------------------------------------------------------------
(* extract_apk_icon *)

\* str.lower()
Lower(s) == [i \in 1..Len(s) |-> ToLower(s[i])]

\* sub in s
Contains(s, sub) ==
    \E i \in 1..(Len(s) - Len(sub) + 1) : SubSeq(s, i, i + Len(sub) - 1) = sub

Hdpi == <<"h", "d", "p", "i">>

\* ['hdpi', 'xhdpi', 'xxhdpi', 'xxxhdpi']: a search from the shortest pattern
LeastSpecificFirst ==
    <<Hdpi, <<"x">> \o Hdpi, <<"x", "x">> \o Hdpi, <<"x", "x", "x">> \o Hdpi>>

\* ['xxxhdpi', 'xxhdpi', 'xhdpi', 'hdpi']
DensityPatterns ==
    <<<<"x", "x", "x">> \o Hdpi, <<"x", "x">> \o Hdpi, <<"x">> \o Hdpi, Hdpi>>

\* {'hdpi': 1, 'xhdpi': 2, 'xxhdpi': 3, 'xxxhdpi': 4}[size_match]
SizeValue(size_match) == Len(size_match) - 3

\* size_match: the first pattern of the list that icon_file.lower() contains;
\* Empty for None
SizeMatch(icon_file) ==
    LET found == {n \in 1..Len(DensityPatterns) :
                     Contains(Lower(icon_file), DensityPatterns[n])}
    IN  IF found = {} THEN Empty
        ELSE DensityPatterns[CHOOSE n \in found : \A m \in found : n <= m]

\* the resource paths of the aapt output that hold 'drawable' and '.png'
DrawablePath(qualifier) ==
    <<"d", "r", "a", "w", "a", "b", "l", "e">> \o qualifier \o <<"/", "i", ".", "p", "n", "g">>

DrawablePaths ==
    {DrawablePath(q) : q \in {Empty, <<"-", "m", "d", "p", "i">>, <<"-">> \o Hdpi,
                              <<"-", "x">> \o Hdpi, <<"-", "X", "X", "H", "D", "P", "I">>,
                              <<"-", "x", "x">> \o Hdpi, <<"-", "x", "x", "x">> \o Hdpi}}

ApkIconInit ==
    /\ apk_icon_pc = "list"
    /\ apk_icon_files \in StringsUpTo(DrawablePaths, MaxIcons)
    /\ apk_icon_i = 0 /\ apk_best_icon = 0 /\ best_size = 0 /\ apk_icon_written = <<>>

\* aapt dump resources gives icon_files; when it fails or times out the
\* exception is logged, and when icon_files is empty nothing is done
ApkIconList ==
    /\ apk_icon_pc = "list"
    /\ \/ apk_icon_files # <<>> /\ apk_icon_pc' = "loop" /\ apk_icon_i' = 1
       \/ apk_icon_pc' = "done" /\ UNCHANGED apk_icon_i
    /\ UNCHANGED <<apk_icon_files, apk_best_icon, best_size, apk_icon_written,
                   sanVars, apkVars, ipaVars, iconVars, nameVars, batchVars, tgtVars,
                   wsVars, anVars, poolVars, fipaVars, fixedVars>>

\* one turn of the loop over icon_files
ApkIconConsider ==
    /\ apk_icon_pc = "loop"
    /\ apk_icon_i <= Len(apk_icon_files)
    /\ LET size_match == SizeMatch(apk_icon_files[apk_icon_i])
       IN  IF size_match # Empty /\ SizeValue(size_match) > best_size
           THEN best_size' = SizeValue(size_match) /\ apk_best_icon' = apk_icon_i
           ELSE UNCHANGED <<best_size, apk_best_icon>>
    /\ apk_icon_i' = apk_icon_i + 1
    /\ UNCHANGED <<apk_icon_pc, apk_icon_files, apk_icon_written,
                   sanVars, apkVars, ipaVars, iconVars, nameVars, batchVars, tgtVars,
                   wsVars, anVars, poolVars, fipaVars, fixedVars>>

\* if best_icon: aapt writes the entry to icon_dest; a timeout of aapt is
\* logged
ApkIconExtract ==
    /\ apk_icon_pc = "loop"
    /\ apk_icon_i > Len(apk_icon_files)
    /\ \/ apk_icon_written' = IF apk_best_icon # 0
                              THEN Append(apk_icon_written, apk_best_icon)
                              ELSE apk_icon_written
       \/ apk_best_icon # 0 /\ UNCHANGED apk_icon_written
    /\ apk_icon_pc' = "done"
    /\ UNCHANGED <<apk_icon_files, apk_icon_i, apk_best_icon, best_size,
                   sanVars, apkVars, ipaVars, iconVars, nameVars, batchVars, tgtVars,
                   wsVars, anVars, poolVars, fipaVars, fixedVars>>

ApkIconNext == ApkIconList \/ ApkIconConsider \/ ApkIconExtract

\* the specification of one icon extraction from one Android package
ApkIconSpecInit ==
    /\ ApkIconInit /\ SanIdle /\ ApkIdle /\ IpaIdle /\ IconIdle /\ NameIdle /\ BatchIdle
    /\ TgtIdle /\ WsIdle /\ AnIdle /\ PoolIdle /\ FipaIdle /\ FixedIdle

SpecApkIcon == ApkIconSpecInit /\ [][ApkIconNext]_vars

\* the density rank of a path: one more than the greatest number of x that
\* precede an hdpi in it, and 0 when it has no hdpi
DensityRank(path) ==
    LET xs == {n \in 0..3 : Contains(Lower(path), [k \in 1..n |-> "x"] \o Hdpi)}
    IN  IF xs = {} THEN 0 ELSE 1 + (CHOOSE n \in xs : \A m \in xs : m <= n)

\* C22: once the loop has seen every candidate, the selected entry has the
\* greatest density rank of all candidates under hdpi < xhdpi < xxhdpi <
\* xxxhdpi, each entry ranked by its most specific qualifier; it is the first
\* listed of that rank; an entry is selected when some candidate has a
\* qualifier, and an entry without a qualifier only when no candidate has one.
C22_MaximalDensity ==
    (apk_icon_pc \in {"loop", "done"} /\ apk_icon_i > Len(apk_icon_files)) =>
        /\ (\E k \in 1..Len(apk_icon_files) : DensityRank(apk_icon_files[k]) > 0)
              => apk_best_icon # 0
        /\ apk_best_icon # 0 =>
              /\ DensityRank(apk_icon_files[apk_best_icon]) = 0
                    => \A k \in 1..Len(apk_icon_files) :
                          DensityRank(apk_icon_files[k]) = 0
              /\ \A k \in 1..Len(apk_icon_files) :
                    DensityRank(apk_icon_files[k])
                        <= DensityRank(apk_icon_files[apk_best_icon])
              /\ \A k \in 1..(apk_best_icon - 1) :
                    DensityRank(apk_icon_files[k])
                        < DensityRank(apk_icon_files[apk_best_icon])
        /\ \A w \in 1..Len(apk_icon_written) : apk_icon_written[w] = apk_best_icon

\* an xxxhdpi entry was written that was listed after an hdpi entry and before
\* another entry of its own rank
C22_Witness ==
    /\ apk_icon_pc = "done"
    /\ apk_icon_written = <<2>>
    /\ Len(apk_icon_files) = 3
    /\ DensityRank(apk_icon_files[1]) = 1
    /\ DensityRank(apk_icon_files[2]) = 4
    /\ DensityRank(apk_icon_files[3]) = 4

-----------------------------------------------------------------------------
(* final_renamer_fixed.py: the extraction of one file *)

\* return None
None == [none |-> TRUE]

\* a future that is not done, and one that holds an exception
Pending == [status |-> "pending"]
Raised == [status |-> "raised"]

\* extract_apk_metadata of a badging output with the parsed fields
ApkMetadata(badging) ==
    [name |-> badging.label, version |-> badging.version, package |-> badging.package,
     confidence |-> IF badging.label # Empty /\ badging.package # Empty THEN 3 ELSE 1]

\* extract_ipa_metadata of the decoded main bundle
IpaMetadata(info_plist) ==
    [name |-> Or(info_plist.CFBundleDisplayName,
                 Or(info_plist.CFBundleName, info_plist.CFBundleExecutable)),
     version |-> Or(info_plist.CFBundleShortVersionString, info_plist.CFBundleVersion),
     package |-> info_plist.CFBundleIdentifier,
     confidence |-> IF info_plist.CFBundleDisplayName # Empty THEN 4
                    ELSE IF info_plist.CFBundleName # Empty THEN 3 ELSE 2]

\* process_file of a file whose extraction gave metadata, or None
ProcessFile(file, metadata) ==
    IF metadata = None
    THEN [file |-> file, name |-> Empty, version |-> Empty, package |-> Empty,
          confidence |-> 0, status |-> "invalid"]
    ELSE [file |-> file, name |-> metadata.name, version |-> metadata.version,
          package |-> metadata.package, confidence |-> metadata.confidence,
          status |-> "valid"]

\* the badging outputs and the main bundles of the packages of a batch
BatchBadging == [label : {Empty, <<"G">>}, package : {Empty, <<"c", ".", "g">>},
                 version : {Empty, <<"2">>}]
BatchBundles ==
    [CFBundleDisplayName : {Empty, <<"G">>}, CFBundleName : {Empty},
     CFBundleExecutable : {Empty}, CFBundleShortVersionString : {Empty},
     CFBundleVersion : {Empty}, CFBundleIdentifier : {<<"c", ".", "g">>}]

\* what extract_apk_metadata or extract_ipa_metadata can return for a file
MetadataOf(file) ==
    {None} \cup (IF EndsWith(file, DotApk)
                 THEN {ApkMetadata(b) : b \in BatchBadging}
                 ELSE {IpaMetadata(b) : b \in BatchBundles})

-----------------------------------------------------------------------------
(* get_unique_filename *)

Digits == <<"0", "1", "2", "3", "4", "5", "6", "7", "8", "9">>

\* str(n) of a natural number
RECURSIVE Str(_)
Str(n) == IF n < 10 THEN <<Digits[n + 1]>> ELSE Str(n \div 10) \o <<Digits[(n % 10) + 1]>>

\* f"{base_name} ({counter}){extension}"
Numbered(base_name, counter, ext) ==
    base_name \o <<" ", "(">> \o Str(counter) \o <<")">> \o ext

\* the while loop of get_unique_filename
RECURSIVE UniqueFrom(_, _, _, _, _)
UniqueFrom(base_name, ext, existing, counter, candidate) ==
    IF candidate \in existing
    THEN UniqueFrom(base_name, ext, existing, counter + 1, Numbered(base_name, counter, ext))
    ELSE candidate

\* get_unique_filename with a counter that starts at 0
get_unique_filename_from_zero(base_name, ext, existing) ==
    UniqueFrom(base_name, ext, existing, 0, base_name \o ext)

get_unique_filename(base_name, ext, existing) ==
    UniqueFrom(base_name, ext, existing, 1, base_name \o ext)

-----------------------------------------------------------------------------
(* main of final_renamer_fixed.py *)

\* max_retries
max_retries == 5

\* the names a package file of the directory can have, in listing order
DirectoryNames ==
    << <<"g">> \o DotIpa,
       <<"G", " ", "v", "1", ".", "0">> \o DotIpa,
       <<"G", " ", "v", "1", ".", "0", " ", "(", "1", ")">> \o DotIpa,
       <<"h">> \o DotApk,
       <<"G", " ", "v", "1", ".", "0">> \o DotApk >>

\* the listings os.listdir can give: at most MaxFiles of the names
Listings ==
    {s \in UNION {[1..k -> 1..Len(DirectoryNames)] : k \in 0..MaxFiles} :
        \A a, b \in 1..Len(s) : a < b => s[a] < s[b]}

\* the elements of a sequence
Range(s) == {s[i] : i \in 1..Len(s)}

\* the directory that holds the listed files, each with its own content
DiskOf(files) == [n \in Range(files) |-> CHOOSE i \in 1..Len(files) : files[i] = n]

\* f.endswith(".apk") or f.endswith(".ipa")
IsPackage(f) == EndsWith(f, DotApk) \/ EndsWith(f, DotIpa)

BatchInit ==
    /\ pc = "analyze"
    /\ \E l \in Listings : files_to_process = [i \in 1..Len(l) |-> DirectoryNames[l[i]]]
    /\ disk = DiskOf(files_to_process)
    /\ worker = [i \in 1..Len(files_to_process) |-> "running"]
    /\ future = [i \in 1..Len(files_to_process) |-> Pending]
    /\ processing_results = <<>>
    /\ existing_files = {}
    /\ rename_pc = "idle" /\ safe_name = <<>> /\ extension = <<>> /\ new_filename = <<>>
    /\ attempt = 0 /\ rename_results = <<>> /\ icon_j = 0 /\ icons_dir = <<>>

otherVars == <<sanVars, apkVars, ipaVars, iconVars, nameVars, tgtVars, wsVars, anVars, apkIconVars, poolVars, fipaVars, fixedVars>>

\* a pool worker returns from process_file, or dies and the future holds the
\* exception
WorkerFinish(i) ==
    /\ pc = "analyze"
    /\ worker[i] = "running"
    /\ \/ \E metadata \in MetadataOf(files_to_process[i]) :
             future' = [future EXCEPT ![i] = ProcessFile(files_to_process[i], metadata)]
       \/ future' = [future EXCEPT ![i] = Raised]
    /\ worker' = [worker EXCEPT ![i] = "done"]
    /\ UNCHANGED <<pc, files_to_process, disk, processing_results, existing_files,
                   rename_pc, safe_name, extension, new_filename, attempt,
                   rename_results, icon_j, icons_dir, otherVars>>

\* as_completed yields a finished future: its result is appended, its exception
\* logged
Collect(i) ==
    /\ pc = "analyze"
    /\ worker[i] = "done"
    /\ processing_results' =
          IF future[i] = Raised THEN processing_results
          ELSE Append(processing_results, future[i])
    /\ worker' = [worker EXCEPT ![i] = "collected"]
    /\ UNCHANGED <<pc, files_to_process, disk, future, existing_files,
                   rename_pc, safe_name, extension, new_filename, attempt,
                   rename_results, icon_j, icons_dir, otherVars>>

\* a loop over the futures that ends as soon as one of them was collected
SomeCollected(w) == \E i \in DOMAIN w : w[i] = "collected"

\* as_completed is exhausted and the executor shut down: every future was
\* yielded
AllCollected(w) == \A i \in DOMAIN w : w[i] = "collected"

\* the with block of the executor is left
EndAnalysis ==
    /\ pc = "analyze"
    /\ AllCollected(worker)
    /\ pc' = "seed"
    /\ UNCHANGED <<files_to_process, disk, worker, future, processing_results,
                   existing_files, rename_pc, safe_name, extension, new_filename,
                   attempt, rename_results, icon_j, icons_dir, otherVars>>

\* a registry that starts empty
NoFiles(d) == {}

\* the names os.listdir gives that end in .apk or .ipa
PackageFiles(d) == {f \in DOMAIN d : IsPackage(f)}

\* Get all existing files in directory to avoid conflicts
SeedRegistry ==
    /\ pc = "seed"
    /\ existing_files' = PackageFiles(disk)
    /\ pc' = "rename"
    /\ rename_pc' = "next"
    /\ UNCHANGED <<files_to_process, disk, worker, future, processing_results,
                   safe_name, extension, new_filename, attempt, rename_results,
                   icon_j, icons_dir, otherVars>>

\* the result the rename loop is at
CurrentIndex == Len(rename_results) + 1

\* a loop that renames every result
AnyResult(result) == TRUE

\* result['status'] == 'valid' and result['confidence'] >= 1
Renamable(result) == result.status = "valid" /\ result.confidence >= 1

\* safe_name: the sanitized base name with its version suffix
SafeName(result) ==
    sanitize_filename(ResolveAppName(result))
        \o <<" ", "v">>
        \o (IF ~IsBlank(result.version) THEN result.version ELSE <<"1", ".", "0">>)

\* ".apk" if result['file'].endswith('.apk') else ".ipa"
ExtensionOf(file) == IF EndsWith(file, DotApk) THEN DotApk ELSE DotIpa

\* a registry that forgets the name it is given
NotRegistered(existing, name) == existing

\* existing_files.add(new_filename)
Registered(existing, name) == existing \cup {name}

\* a result that is not valid, or has confidence 0, is passed on as it is
SkipResult ==
    /\ pc = "rename" /\ rename_pc = "next"
    /\ CurrentIndex <= Len(processing_results)
    /\ ~Renamable(processing_results[CurrentIndex])
    /\ rename_results' = Append(rename_results, processing_results[CurrentIndex])
    /\ UNCHANGED <<pc, files_to_process, disk, worker, future, processing_results,
                   existing_files, rename_pc, safe_name, extension, new_filename,
                   attempt, icon_j, icons_dir, otherVars>>

\* the target name of a result is computed and added to the registry; a result
\* that has the name already is passed on
AssignName ==
    /\ pc = "rename" /\ rename_pc = "next"
    /\ CurrentIndex <= Len(processing_results)
    /\ Renamable(processing_results[CurrentIndex])
    /\ LET result == processing_results[CurrentIndex]
           target == get_unique_filename(SafeName(result), ExtensionOf(result.file),
                                         existing_files)
       IN  /\ safe_name' = SafeName(result)
           /\ extension' = ExtensionOf(result.file)
           /\ new_filename' = target
           /\ existing_files' = Registered(existing_files, target)
           /\ attempt' = 0
           /\ IF result.file # target
              THEN rename_pc' = "attempt" /\ UNCHANGED rename_results
              ELSE rename_pc' = "next" /\ rename_results' = Append(rename_results, result)
    /\ UNCHANGED <<pc, files_to_process, disk, worker, future, processing_results,
                   icon_j, icons_dir, otherVars>>

\* os.rename(src, dst) on a directory: dst takes the content of src, and the
\* content dst had is lost
Renamed(d, src, dst) ==
    [n \in (DOMAIN d \ {src}) \cup {dst} |-> IF n = dst THEN d[src] ELSE d[n]]

\* a result that stays valid when the last attempt failed
StillValid(result) == result

\* result['status'] = 'invalid'
GiveUp(result) == [result EXCEPT !.status = "invalid"]

\* one attempt of os.rename: it succeeds, or raises OSError and is tried again
\* unless it was the last attempt, which makes the result invalid; attempt is
\* 0 again when the loop over the attempts is left
AttemptRename ==
    /\ pc = "rename" /\ rename_pc = "attempt"
    /\ LET result == processing_results[CurrentIndex]
       IN  \/ /\ result.file \in DOMAIN disk
              /\ disk' = Renamed(disk, result.file, new_filename)
              /\ processing_results' =
                    [processing_results EXCEPT ![CurrentIndex].file = new_filename]
              /\ rename_results' =
                    Append(rename_results, [result EXCEPT !.file = new_filename])
              /\ rename_pc' = "next"
              /\ attempt' = 0
           \/ /\ attempt < max_retries - 1
              /\ attempt' = attempt + 1
              /\ UNCHANGED <<disk, processing_results, rename_results, rename_pc>>
           \/ /\ attempt = max_retries - 1
              /\ processing_results' =
                    [processing_results EXCEPT ![CurrentIndex] = GiveUp(result)]
              /\ rename_results' = Append(rename_results, GiveUp(result))
              /\ rename_pc' = "next"
              /\ attempt' = 0
              /\ UNCHANGED disk
    /\ UNCHANGED <<pc, files_to_process, worker, future, existing_files, safe_name,
                   extension, new_filename, icon_j, icons_dir, otherVars>>

\* the rename loop is through with every result
EndRename ==
    /\ pc = "rename" /\ rename_pc = "next"
    /\ CurrentIndex > Len(processing_results)
    /\ pc' = "icons"
    /\ UNCHANGED <<files_to_process, disk, worker, future, processing_results,
                   existing_files, rename_pc, safe_name, extension, new_filename,
                   attempt, rename_results, icon_j, icons_dir, otherVars>>

\* os.path.join(icons_dir, f"{os.path.splitext(target_filename)[0]}.png")
IconDest(target_filename) == Stem(target_filename) \o <<".", "p", "n", "g">>

\* an icon file written to the icons directory with the content of a package
IconWritten(icons, dest, content) ==
    [n \in DOMAIN icons \cup {dest} |-> IF n = dest THEN content ELSE icons[n]]

\* one turn of the icon loop: the icon of a valid result is extracted from the
\* file under its present name, when the package has one and no exception is
\* raised
ExtractIcon ==
    /\ pc = "icons"
    /\ icon_j < Len(rename_results)
    /\ icon_j' = icon_j + 1
    /\ LET result == rename_results[icon_j + 1]
       IN  \/ /\ result.status = "valid"
              /\ result.file \in DOMAIN disk
              /\ EndsWith(result.file, DotApk) => result.package # Empty
              /\ icons_dir' = IconWritten(icons_dir, IconDest(result.file), disk[result.file])
           \/ UNCHANGED icons_dir
    /\ UNCHANGED <<pc, files_to_process, disk, worker, future, processing_results,
                   existing_files, rename_pc, safe_name, extension, new_filename,
                   attempt, rename_results, otherVars>>

\* the icon loop is through with every result; the report is written
EndIcons ==
    /\ pc = "icons"
    /\ icon_j = Len(rename_results)
    /\ pc' = "done"
    /\ UNCHANGED <<files_to_process, disk, worker, future, processing_results,
                   existing_files, rename_pc, safe_name, extension, new_filename,
                   attempt, rename_results, icon_j, icons_dir, otherVars>>

Next ==
    \/ \E i \in DOMAIN worker : WorkerFinish(i)
    \/ \E i \in DOMAIN worker : Collect(i)
    \/ EndAnalysis
    \/ SeedRegistry
    \/ SkipResult
    \/ AssignName
    \/ AttemptRename
    \/ EndRename
    \/ ExtractIcon
    \/ EndIcons

\* the specification of one batch run of main
Init == BatchInit /\ SanIdle /\ ApkIdle /\ IpaIdle /\ IconIdle /\ NameIdle /\ TgtIdle /\ WsIdle /\ AnIdle /\ ApkIconIdle /\ PoolIdle /\ FipaIdle /\ FixedIdle

Spec == Init /\ [][Next]_vars

-----------------------------------------------------------------------------
(* The target name main gives one result, and its rename *)

\* the labels, versions and package ids the extraction can return, and the
\* names of the files
TargetLabels == StringsUpTo({"G", " ", "_", ":"}, MaxLen)
TargetVersions == {Empty, <<" ">>, <<"2">>, <<"2", ":">>}
TargetPackages == {Empty, <<"c", ".", "g">>}
TargetFiles == {<<"h">> \o DotApk, <<"g">> \o DotIpa}

\* the results process_file returns for the files when the extraction gave
\* metadata
TargetResults ==
    {ProcessFile(<<"h">> \o DotApk, ApkMetadata(b)) :
        b \in [label : TargetLabels, package : TargetPackages, version : TargetVersions]}
    \cup
    {ProcessFile(<<"g">> \o DotIpa, IpaMetadata(b)) :
        b \in [CFBundleDisplayName : TargetLabels, CFBundleName : {Empty},
               CFBundleExecutable : {Empty}, CFBundleShortVersionString : TargetVersions,
               CFBundleVersion : {Empty}, CFBundleIdentifier : TargetPackages]}

\* the names of the other package files the directory can hold
TargetOthers ==
    {<<"G", " ", "v", "1", ".", "0">> \o DotApk,
     <<"G", " ", "v", "1", ".", "0", " ", "(", "1", ")">> \o DotApk}

\* the rename loop is at a result that is valid with a confidence of 1 or more;
\* the registry holds the package files of the directory
TargetInit ==
    /\ tgt_pc = "assign"
    /\ tgt_result \in TargetResults
    /\ \E others \in SUBSET TargetOthers : tgt_disk = {tgt_result.file} \cup others
    /\ tgt_existing = tgt_disk
    /\ tgt_filename = <<>>

\* safe_name, extension and new_filename are computed and new_filename is added
\* to the registry
TargetAssign ==
    /\ tgt_pc = "assign"
    /\ Renamable(tgt_result)
    /\ LET target == get_unique_filename(SafeName(tgt_result), ExtensionOf(tgt_result.file),
                                         tgt_existing)
       IN  /\ tgt_filename' = target
           /\ tgt_existing' = Registered(tgt_existing, target)
           /\ tgt_pc' = IF tgt_result.file # target THEN "rename" ELSE "done"
    /\ UNCHANGED <<tgt_result, tgt_disk, sanVars, apkVars, ipaVars, iconVars, nameVars, batchVars, wsVars, anVars, apkIconVars, poolVars, fipaVars, fixedVars>>

\* the attempts of os.rename: one succeeds, or the last one raises
TargetRename ==
    /\ tgt_pc = "rename"
    /\ \/ /\ tgt_disk' = (tgt_disk \ {tgt_result.file}) \cup {tgt_filename}
          /\ tgt_result' = [tgt_result EXCEPT !.file = tgt_filename]
       \/ /\ tgt_result' = GiveUp(tgt_result)
          /\ UNCHANGED tgt_disk
    /\ tgt_pc' = "done"
    /\ UNCHANGED <<tgt_existing, tgt_filename, sanVars, apkVars, ipaVars, iconVars, nameVars, batchVars, wsVars, anVars, apkIconVars, poolVars, fipaVars, fixedVars>>

TargetNext == TargetAssign \/ TargetRename

\* the specification of the naming and the rename of one result
TargetSpecInit ==
    /\ TargetInit /\ SanIdle /\ ApkIdle /\ IpaIdle /\ IconIdle /\ NameIdle /\ BatchIdle
    /\ WsIdle /\ AnIdle /\ ApkIconIdle /\ PoolIdle /\ FipaIdle /\ FixedIdle

SpecTarget == TargetSpecInit /\ [][TargetNext]_vars

\* the extension of a package file
OwnExtension(file) == CHOOSE ext \in {DotApk, DotIpa} : EndsWith(file, ext)

\* sanitize(L), ' v<version>' or ' v1.0', and the extension of the file, for
\* the label L of a result
NamedAfterLabel(result) ==
    sanitize_filename(result.name)
        \o (IF Strip(result.version) # Empty
            THEN <<" ", "v">> \o result.version
            ELSE <<" ", "v", "1", ".", "0">>)
        \o OwnExtension(result.file)

\* C14: for a valid result whose label L is not empty after trimming, the name
\* sanitize(L) + ' v<version>' (' v1.0' when the version is blank) + extension
\* is the rename target whenever the registry does not hold it, and a rename
\* that succeeds leaves the file in the directory under exactly the target.
C14_TargetName ==
    /\ [][ (tgt_pc = "assign" /\ Strip(tgt_result.name) # Empty
              /\ NamedAfterLabel(tgt_result) \notin tgt_existing)
           => tgt_filename' = NamedAfterLabel(tgt_result) ]_vars
    /\ [][ (tgt_pc = "rename" /\ tgt_disk' # tgt_disk)
           => /\ tgt_disk' = (tgt_disk \ {tgt_result.file}) \cup {tgt_filename}
              /\ tgt_result'.file = tgt_filename ]_vars

\* whether a name has one of the reserved characters < > : " / \ | ? *
HasReserved(name) == \E i \in 1..Len(name) : name[i] \in InvalidChars

\* C17: the target name of a result (base name, version suffix, collision
\* suffix, extension) has none of the reserved characters, for every label and
\* every version.
C17_TargetFilesystemSafe ==
    tgt_pc \in {"rename", "done"} => ~HasReserved(tgt_filename)

\* C29: the base name placed before ' v<version>' has at least one character
\* for every label, package id and file name, so that no target name starts
\* with ' v'.
C29_BaseNameNotEmpty ==
    tgt_pc \in {"rename", "done"} =>
        ~(Len(tgt_filename) >= 2 /\ SubSeq(tgt_filename, 1, 2) = <<" ", "v">>)

-----------------------------------------------------------------------------
(* The temporary directories of the extraction calls *)

\* most extraction calls that run side by side
MaxCalls == 2

\* the functions that work inside `with tempfile.TemporaryDirectory() as temp_dir`;
\* "manifest" is the third method of analyze_apk_comprehensive
WorkspaceKinds ==
    {"extract_ipa_metadata", "extract_ipa_icon", "analyze_ipa_comprehensive", "manifest"}

\* the functions that return inside the with block when the archive has no
\* Info.plist entry
EarlyReturnKinds == {"extract_ipa_metadata", "analyze_ipa_comprehensive"}

\* the entries a function writes to its directory
Writes(kind) ==
    CASE kind = "extract_ipa_metadata" -> {"Info.plist"}
      [] kind = "extract_ipa_icon" -> {"icon.png"}
      [] kind = "analyze_ipa_comprehensive" -> {"Info.plist", "other/Info.plist"}
      [] kind = "manifest" -> {"manifest.txt"}

\* the entry a function has to have written before it leaves the with block at
\* its end; extract_ipa_icon leaves it with nothing written when no icon is
\* chosen
Needs(kind) ==
    CASE kind = "extract_ipa_metadata" -> {"Info.plist"}
      [] kind = "extract_ipa_icon" -> {}
      [] kind = "analyze_ipa_comprehensive" -> {"Info.plist"}
      [] kind = "manifest" -> {"manifest.txt"}

\* the names mkdtemp can give a directory
DirNames == 1..MaxCalls

\* the directories with a new, empty one
Created(tmp, dir) == [d \in DOMAIN tmp \cup {dir} |-> IF d = dir THEN {} ELSE tmp[d]]

\* an exit of the with block that leaves the directory behind
Kept(tmp, dir) == tmp

\* TemporaryDirectory.__exit__: the directory is removed with its entries
Cleanup(tmp, dir) == [d \in DOMAIN tmp \ {dir} |-> tmp[d]]

WsInit ==
    /\ ws_pc = [c \in 1..MaxCalls |-> "ready"]
    /\ ws_kind \in [1..MaxCalls -> WorkspaceKinds]
    /\ ws_dir = [c \in 1..MaxCalls |-> 0]
    /\ ws_tmp = <<>>

\* with tempfile.TemporaryDirectory() as temp_dir: mkdtemp makes a directory
\* under a name that no directory has, or raises
WsEnter(c) ==
    /\ ws_pc[c] = "ready"
    /\ \/ \E dir \in DirNames \ DOMAIN ws_tmp :
             /\ ws_tmp' = Created(ws_tmp, dir)
             /\ ws_dir' = [ws_dir EXCEPT ![c] = dir]
             /\ ws_pc' = [ws_pc EXCEPT ![c] = "in"]
       \/ /\ ws_pc' = [ws_pc EXCEPT ![c] = "no_directory"]
          /\ UNCHANGED <<ws_dir, ws_tmp>>
    /\ UNCHANGED <<ws_kind, sanVars, apkVars, ipaVars, iconVars, nameVars, batchVars, tgtVars, anVars, apkIconVars, poolVars, fipaVars, fixedVars>>

\* zip_ref.extract(entry, temp_dir), or open(os.path.join(temp_dir, "manifest.txt"), "w")
WsExtract(c) ==
    /\ ws_pc[c] = "in"
    /\ \E entry \in Writes(ws_kind[c]) \ ws_tmp[ws_dir[c]] :
          ws_tmp' = [ws_tmp EXCEPT ![ws_dir[c]] = @ \cup {entry}]
    /\ UNCHANGED <<ws_pc, ws_kind, ws_dir, sanVars, apkVars, ipaVars, iconVars, nameVars, batchVars, tgtVars, anVars, apkIconVars, poolVars, fipaVars, fixedVars>>

\* the with block is left for the reason given: the directory is removed
WsExit(c, reason) ==
    /\ ws_pc[c] = "in"
    /\ ws_tmp' = Cleanup(ws_tmp, ws_dir[c])
    /\ ws_dir' = [ws_dir EXCEPT ![c] = 0]
    /\ ws_pc' = [ws_pc EXCEPT ![c] = reason]
    /\ UNCHANGED <<ws_kind, sanVars, apkVars, ipaVars, iconVars, nameVars, batchVars, tgtVars, anVars, apkIconVars, poolVars, fipaVars, fixedVars>>

\* if not info_files: return None (return result, in analyze_ipa_comprehensive)
WsReturnEarly(c) ==
    /\ ws_kind[c] \in EarlyReturnKinds
    /\ ws_pc[c] = "in" /\ ws_tmp[ws_dir[c]] = {}
    /\ WsExit(c, "returned_early")

\* an exception of zipfile, plistlib, shutil or subprocess leaves the with block
WsRaise(c) ==
    /\ ws_pc[c] = "in"
    /\ WsExit(c, "raised")

\* the end of the with block is reached, or the return statement at its end
WsLeave(c) ==
    /\ ws_pc[c] = "in" /\ Needs(ws_kind[c]) \subseteq ws_tmp[ws_dir[c]]
    /\ WsExit(c, "returned")

WsNext ==
    \E c \in 1..MaxCalls :
        WsEnter(c) \/ WsExtract(c) \/ WsReturnEarly(c) \/ WsRaise(c) \/ WsLeave(c)

\* the specification of the extraction calls that run side by side
WsSpecInit ==
    /\ WsInit /\ SanIdle /\ ApkIdle /\ IpaIdle /\ IconIdle /\ NameIdle /\ BatchIdle
    /\ TgtIdle /\ AnIdle /\ ApkIconIdle /\ PoolIdle /\ FipaIdle /\ FixedIdle

SpecWorkspace == WsSpecInit /\ [][WsNext]_vars

\* the calls that are inside their with block
Inside == {c \in DOMAIN ws_pc : ws_pc[c] = "in"}

\* C19: the temporary directory of an extraction call exists while the call is
\* inside its with block and is removed on every way out of it (the end of the
\* block, the early return when no Info.plist is found, an exception): the
\* directories that exist are exactly those of the calls inside their block,
\* and no two calls have the same directory.
C19_WorkspacesReleased ==
    /\ DOMAIN ws_tmp = {ws_dir[c] : c \in Inside}
    /\ \A c \in DOMAIN ws_pc : ws_pc[c] # "in" => ws_dir[c] = 0
    /\ \A c, d \in Inside : c # d => ws_dir[c] # ws_dir[d]

\* one call left its block by the early return and another by an exception,
\* and no directory is left
C19_Witness ==
    /\ \E c, d \in DOMAIN ws_pc : ws_pc[c] = "returned_early" /\ ws_pc[d] = "raised"
    /\ ws_tmp = <<>>

-----------------------------------------------------------------------------
(* main of comprehensive_analysis.py *)

\* what analyze_apk_comprehensive and analyze_ipa_comprehensive can return for a
\* file: the final name and confidence, and whether result['error'] is set (the
\* archive is unreadable or has no Info.plist)
AnalysisOf(file) ==
    IF EndsWith(file, DotApk)
    THEN {[file |-> file, final_name |-> Empty, confidence |-> 0, error |-> FALSE],
          [file |-> file, final_name |-> <<"A">>, confidence |-> 3, error |-> FALSE]}
    ELSE {[file |-> file, final_name |-> Empty, confidence |-> 0, error |-> TRUE],
          [file |-> file, final_name |-> <<"D">>, confidence |-> 4, error |-> FALSE]}

AnInit ==
    /\ an_pc = "analyze"
    /\ \E l \in Listings : an_files = [i \in 1..Len(l) |-> DirectoryNames[l[i]]]
    /\ an_worker = [i \in 1..Len(an_files) |-> "running"]
    /\ an_future = [i \in 1..Len(an_files) |-> Pending]
    /\ analysis_results = <<>>

\* analyze_file in a pool worker: os.path.getsize raises and the future holds the
\* exception, or the analysis of the file returns its result
AnalyzeFile(i) ==
    /\ an_pc = "analyze"
    /\ an_worker[i] = "running"
    /\ \/ an_future' = [an_future EXCEPT ![i] = Raised]
       \/ \E result \in AnalysisOf(an_files[i]) : an_future' = [an_future EXCEPT ![i] = result]
    /\ an_worker' = [an_worker EXCEPT ![i] = "done"]
    /\ UNCHANGED <<an_pc, an_files, analysis_results, sanVars, apkVars, ipaVars, iconVars, nameVars, batchVars, tgtVars, wsVars, apkIconVars, poolVars, fipaVars, fixedVars>>

\* as_completed yields a finished future: its result is appended, its exception
\* logged
AnalyzeCollect(i) ==
    /\ an_pc = "analyze"
    /\ an_worker[i] = "done"
    /\ analysis_results' =
          IF an_future[i] = Raised THEN analysis_results
          ELSE Append(analysis_results, an_future[i])
    /\ an_worker' = [an_worker EXCEPT ![i] = "collected"]
    /\ UNCHANGED <<an_pc, an_files, an_future, sanVars, apkVars, ipaVars, iconVars, nameVars, batchVars, tgtVars, wsVars, apkIconVars, poolVars, fipaVars, fixedVars>>

\* the with block of the executor is left; the detailed analysis and the
\* summary are written from analysis_results
AnalyzeReport ==
    /\ an_pc = "analyze"
    /\ AllCollected(an_worker)
    /\ an_pc' = "done"
    /\ UNCHANGED <<an_files, an_worker, an_future, analysis_results, sanVars, apkVars, ipaVars, iconVars, nameVars, batchVars, tgtVars, wsVars, apkIconVars, poolVars, fipaVars, fixedVars>>

AnNext ==
    \/ \E i \in DOMAIN an_worker : AnalyzeFile(i)
    \/ \E i \in DOMAIN an_worker : AnalyzeCollect(i)
    \/ AnalyzeReport

\* the specification of one run of main of comprehensive_analysis.py
AnSpecInit ==
    /\ AnInit /\ SanIdle /\ ApkIdle /\ IpaIdle /\ IconIdle /\ NameIdle /\ BatchIdle
    /\ TgtIdle /\ WsIdle /\ ApkIconIdle /\ PoolIdle /\ FipaIdle /\ FixedIdle

SpecAnalysis == AnSpecInit /\ [][AnNext]_vars

\* C20: no exception escapes analyze_file, and when the run is complete every
\* enumerated file has exactly one entry in analysis_results, from which the
\* summary report is written.
C20_EveryFileAnalysed ==
    an_pc = "done" =>
        /\ \A i \in 1..Len(an_files) : an_future[i] # Raised
        /\ Len(analysis_results) = Len(an_files)
        /\ \A i \in 1..Len(an_files) :
              Cardinality({k \in 1..Len(analysis_results) :
                              analysis_results[k].file = an_files[i]}) = 1

-----------------------------------------------------------------------------
(* main of p_optimized.py and its pool workers *)

\* cpu_count(): the processes of the pool
MaxWorkers == 2

\* ' v' in filename and (filename.endswith('.apk') or filename.endswith('.ipa'))
is_already_renamed(filename) == Contains(filename, <<" ", "v">>) /\ IsPackage(filename)

\* the positions where re.match(r'(.+?)\s+v(.+?)\.(apk|ipa)$', filename) can
\* end its first group: white space follows up to a v, and at least one
\* character stands between that v and the extension
VersionMarks(filename) ==
    {i \in 2..Len(filename) :
        /\ filename[i] \in Whitespace
        /\ \E j \in (i + 1)..(Len(filename) - 5) :
              /\ filename[j] = "v"
              /\ \A k \in i..(j - 1) : filename[k] \in Whitespace}

\* extract_metadata_from_filename: app_name and version of a renamed file, None
\* when the pattern does not match
extract_metadata_from_filename(filename) ==
    IF ~is_already_renamed(filename) \/ VersionMarks(filename) = {}
    THEN None
    ELSE LET i == CHOOSE m \in VersionMarks(filename) : \A n \in VersionMarks(filename) : m <= n
             j == CHOOSE n \in (i + 1)..Len(filename) :
                     filename[n] = "v" /\ \A k \in i..(n - 1) : filename[k] \in Whitespace
         IN  [app_name |-> SubSeq(filename, 1, i - 1),
              version |-> SubSeq(filename, j + 1, Len(filename) - 4)]

\* app_name of a worker: the label, else the package id, else the name derived
\* from the package id or from the file name
PoolAppName(label, package, file) ==
    LET first == IF ~IsBlank(label) THEN label ELSE package
    IN  IF IsBlank(first)
        THEN IF ~IsBlank(package)
             THEN Title(ReplaceChars(PackageComponent(package), {"_"}, " "))
             ELSE Stem(file)
        ELSE first

\* app_name = app_name.strip(); if not app_name: app_name = f"App_{...}"
Placeheld(app_name, file) ==
    IF Strip(app_name) = Empty THEN <<"A", "p", "p", "_">> \o Stem(file) ELSE Strip(app_name)

\* safe_name with its version suffix
PoolSafeName(app_name, version) ==
    sanitize_filename(app_name) \o <<" ", "v">>
        \o (IF ~IsBlank(version) THEN version ELSE <<"1", ".", "0">>)

\* the result dictionaries of the workers and of main
PoolValid(file, label, package, version) ==
    [file |-> file, label |-> label, package |-> package, version |-> version,
     status |-> "valid"]

PoolInvalid(file) ==
    [file |-> file, label |-> <<"i", "n", "v", "a", "l", "i", "d">>, package |-> Empty,
     version |-> Empty, status |-> "invalid"]

\* the names a package file of the directory can have, in listing order
PoolDirectoryNames ==
    << <<"g">> \o DotApk, <<"h">> \o DotApk, <<"g">> \o DotIpa,
       <<"G", " ", "v", "1", ".", "0">> \o DotApk >>

PoolListings ==
    {s \in UNION {[1..k -> 1..Len(PoolDirectoryNames)] : k \in 0..MaxFiles} :
        \A a, b \in 1..Len(s) : a < b => s[a] < s[b]}

\* the fields aapt dump badging or the main bundle give for a package
PoolMetadata == [label : {Empty, <<"G">>}, package : {Empty}, version : {Empty}]

\* main lists the directory and submits process_apk_file for every file; every
\* process of the pool has its own renamed_files, empty like that of main
PoolInit ==
    /\ po_pc = "parallel"
    /\ \E l \in PoolListings : po_files = [i \in 1..Len(l) |-> PoolDirectoryNames[l[i]]]
    /\ po_disk = DiskOf(po_files)
    /\ po_worker = [i \in 1..Len(po_files) |-> "queued"]
    /\ po_process = [i \in 1..Len(po_files) |-> 0]
    /\ renamed_files = [q \in 0..MaxWorkers |-> {}]
    /\ po_new_filename = [i \in 1..Len(po_files) |-> Empty]
    /\ po_future = [i \in 1..Len(po_files) |-> Pending]
    /\ po_processing_results = <<>>
    /\ po_rename_results = <<>>

otherVarsOfPool == <<sanVars, apkVars, ipaVars, iconVars, nameVars, batchVars, tgtVars, wsVars, anVars, apkIconVars, fipaVars, fixedVars>>

\* whether a process of the pool runs a task
Busy(q) == \E j \in DOMAIN po_worker : po_process[j] = q /\ po_worker[j] \in {"running", "rename"}

\* a free process of the pool takes the task of a file
PoolStart(i, q) ==
    /\ po_pc = "parallel"
    /\ po_worker[i] = "queued"
    /\ ~Busy(q)
    /\ po_process' = [po_process EXCEPT ![i] = q]
    /\ po_worker' = [po_worker EXCEPT ![i] = "running"]
    /\ UNCHANGED <<po_pc, po_files, po_disk, renamed_files, po_new_filename, po_future,
                   po_processing_results, po_rename_results, otherVarsOfPool>>

\* get_unique_filename of p_optimized.py in the process that calls it: the
\* name is added to renamed_files of that process
PoolClaim(registry, q, name) == [registry EXCEPT ![q] = Registered(registry[q], name)]

\* process_apk_file (and process_ipa_file, which it calls when aapt fails) up to
\* the rename: a file that carries a version pattern is returned as it is; the
\* metadata are read, new_filename is taken from get_unique_filename and the
\* file is to be renamed unless it has that name; no Info.plist, a bundle that
\* cannot be decoded or any other exception gives an invalid result; the
\* process may die, and the future then holds the exception
PoolName(i) ==
    /\ po_pc = "parallel"
    /\ po_worker[i] = "running"
    /\ LET file_path == po_files[i]
           q == po_process[i]
           parsed == extract_metadata_from_filename(file_path)
       IN  IF parsed # None /\ parsed.app_name # Empty /\ parsed.version # Empty
           THEN /\ po_future' = [po_future EXCEPT
                                    ![i] = PoolValid(file_path, parsed.app_name, Empty,
                                                     parsed.version)]
                /\ po_worker' = [po_worker EXCEPT ![i] = "done"]
                /\ UNCHANGED <<renamed_files, po_new_filename>>
           ELSE \/ \E m \in PoolMetadata :
                      LET app_name == IF EndsWith(file_path, DotApk)
                                      THEN PoolAppName(m.label, m.package, file_path)
                                      ELSE Placeheld(PoolAppName(m.label, m.package, file_path),
                                                     file_path)
                          target == get_unique_filename(PoolSafeName(app_name, m.version),
                                                        ExtensionOf(file_path),
                                                        renamed_files[q])
                      IN  /\ renamed_files' = PoolClaim(renamed_files, q, target)
                          /\ po_new_filename' = [po_new_filename EXCEPT ![i] = target]
                          /\ po_future' = [po_future EXCEPT
                                              ![i] = PoolValid(target, m.label, m.package,
                                                               m.version)]
                          /\ po_worker' = [po_worker EXCEPT
                                              ![i] = IF file_path # target THEN "rename"
                                                     ELSE "done"]
                \/ /\ po_future' = [po_future EXCEPT ![i] = PoolInvalid(file_path)]
                   /\ po_worker' = [po_worker EXCEPT ![i] = "done"]
                   /\ UNCHANGED <<renamed_files, po_new_filename>>
                \/ /\ po_future' = [po_future EXCEPT ![i] = Raised]
                   /\ po_worker' = [po_worker EXCEPT ![i] = "done"]
                   /\ UNCHANGED <<renamed_files, po_new_filename>>
    /\ UNCHANGED <<po_pc, po_files, po_disk, po_process, po_processing_results,
                   po_rename_results, otherVarsOfPool>>

\* the attempts of os.rename in the worker: one succeeds, and a file that had
\* the target name is replaced, or the last one raises and new_filename is the
\* name the file has
PoolRename(i) ==
    /\ po_pc = "parallel"
    /\ po_worker[i] = "rename"
    /\ \/ /\ po_files[i] \in DOMAIN po_disk
          /\ po_disk' = Renamed(po_disk, po_files[i], po_new_filename[i])
          /\ UNCHANGED <<po_new_filename, po_future>>
       \/ /\ po_new_filename' = [po_new_filename EXCEPT ![i] = po_files[i]]
          /\ po_future' = [po_future EXCEPT ![i].file = po_files[i]]
          /\ UNCHANGED po_disk
    /\ po_worker' = [po_worker EXCEPT ![i] = "done"]
    /\ UNCHANGED <<po_pc, po_files, po_process, renamed_files, po_processing_results,
                   po_rename_results, otherVarsOfPool>>

\* as_completed yields a finished future: its result is appended, and an
\* invalid row when it holds an exception
PoolCollect(i) ==
    /\ po_pc = "parallel"
    /\ po_worker[i] = "done"
    /\ po_processing_results' =
          Append(po_processing_results,
                 IF po_future[i] = Raised THEN PoolInvalid(po_files[i]) ELSE po_future[i])
    /\ po_worker' = [po_worker EXCEPT ![i] = "collected"]
    /\ UNCHANGED <<po_pc, po_files, po_disk, po_process, renamed_files, po_new_filename,
                   po_future, po_rename_results, otherVarsOfPool>>

\* the with block of the executor is left
PoolEndParallel ==
    /\ po_pc = "parallel"
    /\ AllCollected(po_worker)
    /\ po_pc' = "rename"
    /\ UNCHANGED <<po_files, po_disk, po_worker, po_process, renamed_files,
                   po_new_filename, po_future, po_processing_results, po_rename_results,
                   otherVarsOfPool>>

\* one turn of the rename loop of main: a valid result whose file carries no
\* version pattern is named from renamed_files of the main process and renamed;
\* an exception of os.rename is logged
PoolRenameTurn ==
    /\ po_pc = "rename"
    /\ Len(po_rename_results) < Len(po_processing_results)
    /\ LET result == po_processing_results[Len(po_rename_results) + 1]
       IN  IF result.status = "valid" /\ ~is_already_renamed(result.file)
           THEN LET app_name == Placeheld(PoolAppName(result.label, result.package,
                                                      result.file), result.file)
                    target == get_unique_filename(PoolSafeName(app_name, result.version),
                                                  ExtensionOf(result.file),
                                                  renamed_files[0])
                IN  /\ renamed_files' = PoolClaim(renamed_files, 0, target)
                    /\ \/ /\ result.file # target
                          /\ result.file \in DOMAIN po_disk
                          /\ po_disk' = Renamed(po_disk, result.file, target)
                          /\ po_rename_results' =
                                Append(po_rename_results, [result EXCEPT !.file = target])
                       \/ /\ po_rename_results' = Append(po_rename_results, result)
                          /\ UNCHANGED po_disk
           ELSE /\ po_rename_results' = Append(po_rename_results, result)
                /\ UNCHANGED <<po_disk, renamed_files>>
    /\ UNCHANGED <<po_pc, po_files, po_worker, po_process, po_new_filename, po_future,
                   po_processing_results, otherVarsOfPool>>

\* the rename loop is through with every result; the report is written
PoolReport ==
    /\ po_pc = "rename"
    /\ Len(po_rename_results) = Len(po_processing_results)
    /\ po_pc' = "done"
    /\ UNCHANGED <<po_files, po_disk, po_worker, po_process, renamed_files,
                   po_new_filename, po_future, po_processing_results, po_rename_results,
                   otherVarsOfPool>>

PoolNext ==
    \/ \E i \in DOMAIN po_worker, q \in 1..MaxWorkers : PoolStart(i, q)
    \/ \E i \in DOMAIN po_worker : PoolName(i)
    \/ \E i \in DOMAIN po_worker : PoolRename(i)
    \/ \E i \in DOMAIN po_worker : PoolCollect(i)
    \/ PoolEndParallel
    \/ PoolRenameTurn
    \/ PoolReport

\* the specification of one run of main of p_optimized.py
PoolSpecInit ==
    /\ PoolInit /\ SanIdle /\ ApkIdle /\ IpaIdle /\ IconIdle /\ NameIdle /\ BatchIdle
    /\ TgtIdle /\ WsIdle /\ AnIdle /\ ApkIconIdle /\ FipaIdle /\ FixedIdle

SpecPool == PoolSpecInit /\ [][PoolNext]_vars

\* the tasks that have been given a target name
Named == {i \in DOMAIN po_new_filename : po_new_filename[i] # Empty}

\* C23: while the pool runs no worker renames a file or claims a name in a
\* registry, so no two tasks are given the same target name and the content of
\* every listed file stays in the directory.
C23_WorkersDoNotRename ==
    /\ po_pc = "parallel" =>
          /\ po_disk = DiskOf(po_files)
          /\ \A q \in DOMAIN renamed_files : renamed_files[q] = {}
    /\ \A i, j \in Named : i # j => po_new_filename[i] # po_new_filename[j]
    /\ \A i \in DOMAIN po_files : \E n \in DOMAIN po_disk : po_disk[n] = i

-----------------------------------------------------------------------------
(* process_ipa_metadata of p_fixed.py *)

\* the decoded main bundles, and what an archive can hold: it cannot be read,
\* it has no Info.plist, the entry of its main Info.plist cannot be extracted,
\* the Info.plist cannot be decoded, or it decodes to a bundle
FixedBundles ==
    [CFBundleDisplayName : {Empty, <<"G">>}, CFBundleName : {Empty, <<"N">>},
     CFBundleExecutable : {Empty, <<"E">>}, CFBundleDisplayNameLocalized : {Empty, <<"L">>},
     CFBundleShortVersionString : {Empty, <<"2">>}, CFBundleVersion : {Empty, <<"3">>},
     CFBundleIdentifier : {Empty, <<"c", ".", "g">>}]

FixedArchives ==
    [kind : {"unreadable", "no_info_plist", "not_extracted", "undecodable"},
     info_plist : {None}]
        \cup [kind : {"bundle"}, info_plist : FixedBundles]

\* the file the call is made for
FixedIpaFile == <<"g">> \o DotIpa

\* label, version and package as the function reads them from info_plist
FixedFields(info_plist) ==
    [label |-> Or(info_plist.CFBundleDisplayName,
                  Or(info_plist.CFBundleName,
                     Or(info_plist.CFBundleExecutable,
                        info_plist.CFBundleDisplayNameLocalized))),
     version |-> Or(info_plist.CFBundleShortVersionString, info_plist.CFBundleVersion),
     package |-> info_plist.CFBundleIdentifier]

\* whether a call has bound a local name. The function assigns to
\* processed_count and has no global statement for it, so that the name is
\* local to it.
Bound(locals, name) == name \in DOMAIN locals

\* with progress_lock: processed_count += 1, and the return that follows it:
\* the read of a local name that is not bound raises UnboundLocalError, which
\* the handler of the function turns into an invalid result
CountAndReturn(file_path, locals) ==
    IF Bound(locals, "processed_count")
    THEN PoolValid(file_path, locals.label, locals.package, locals.version)
    ELSE PoolInvalid(file_path)

\* the dictionary process_ipa_metadata returns for an archive
process_ipa_metadata(file_path, archive) ==
    IF archive.kind = "bundle"
    THEN CountAndReturn(file_path, FixedFields(archive.info_plist))
    ELSE PoolInvalid(file_path)

FipaInit ==
    /\ fipa_pc = "open"
    /\ fipa_archive \in FixedArchives
    /\ fipa_locals = <<>>
    /\ fipa_result = <<>>

otherVarsOfFipa == <<sanVars, apkVars, ipaVars, iconVars, nameVars, batchVars, tgtVars, wsVars, anVars, apkIconVars, poolVars, fixedVars>>

\* the archive is opened and its Info.plist entries listed: an archive that
\* cannot be read raises, one without Info.plist is returned as invalid
FipaOpen ==
    /\ fipa_pc = "open"
    /\ IF fipa_archive.kind \in {"unreadable", "no_info_plist"}
       THEN fipa_result' = PoolInvalid(FixedIpaFile) /\ fipa_pc' = "done"
       ELSE fipa_pc' = "load" /\ UNCHANGED fipa_result
    /\ UNCHANGED <<fipa_archive, fipa_locals, otherVarsOfFipa>>

\* the main Info.plist is extracted and decoded, and label, version and package
\* are read from it; a failure of either is returned as invalid
FipaLoad ==
    /\ fipa_pc = "load"
    /\ IF fipa_archive.kind = "bundle"
       THEN /\ fipa_locals' = FixedFields(fipa_archive.info_plist)
            /\ fipa_pc' = "count"
            /\ UNCHANGED fipa_result
       ELSE /\ fipa_result' = PoolInvalid(FixedIpaFile)
            /\ fipa_pc' = "done"
            /\ UNCHANGED fipa_locals
    /\ UNCHANGED <<fipa_archive, otherVarsOfFipa>>

\* the counter is incremented under the lock and the result returned
FipaCount ==
    /\ fipa_pc = "count"
    /\ fipa_result' = CountAndReturn(FixedIpaFile, fipa_locals)
    /\ fipa_pc' = "done"
    /\ UNCHANGED <<fipa_archive, fipa_locals, otherVarsOfFipa>>

FipaNext == FipaOpen \/ FipaLoad \/ FipaCount

\* the specification of one call of process_ipa_metadata
FipaSpecInit ==
    /\ FipaInit /\ SanIdle /\ ApkIdle /\ IpaIdle /\ IconIdle /\ NameIdle /\ BatchIdle
    /\ TgtIdle /\ WsIdle /\ AnIdle /\ ApkIconIdle /\ PoolIdle /\ FixedIdle

SpecFixedIpa == FipaSpecInit /\ [][FipaNext]_vars

\* C30: a package whose main Info.plist is found and decodes is returned as
\* valid with the label, version and package id read from the bundle, and a
\* result is invalid only when there is no Info.plist, the bundle cannot be
\* decoded or the archive cannot be read.
C30_DecodedBundleIsValid ==
    fipa_pc = "done" =>
        /\ fipa_archive.kind = "bundle" =>
              fipa_result = PoolValid(FixedIpaFile,
                                      FixedFields(fipa_archive.info_plist).label,
                                      FixedFields(fipa_archive.info_plist).package,
                                      FixedFields(fipa_archive.info_plist).version)
        /\ fipa_result.status = "invalid" => fipa_archive.kind # "bundle"

-----------------------------------------------------------------------------
(* main of p_fixed.py *)

\* what process_file_metadata can return for a file: the fields parsed from the
\* name of a file that carries a version pattern; for an Android package the
\* fields of the badging output, or an invalid result when aapt fails or times
\* out; for an Apple package the result of process_ipa_metadata
FixedResults(file_path) ==
    LET parsed == extract_metadata_from_filename(file_path)
    IN  IF parsed # None /\ parsed.app_name # Empty /\ parsed.version # Empty
        THEN {PoolValid(file_path, parsed.app_name, Empty, parsed.version)}
        ELSE IF EndsWith(file_path, DotApk)
             THEN {PoolValid(file_path, m.label, m.package, m.version) : m \in PoolMetadata}
                     \cup {PoolInvalid(file_path)}
             ELSE {process_ipa_metadata(file_path, a) : a \in FixedArchives}

\* main lists the directory and submits process_file_metadata for every file
FixedInit ==
    /\ pf_pc = "analyze"
    /\ \E l \in PoolListings : pf_files = [i \in 1..Len(l) |-> PoolDirectoryNames[l[i]]]
    /\ pf_disk = DiskOf(pf_files)
    /\ pf_worker = [i \in 1..Len(pf_files) |-> "running"]
    /\ pf_future = [i \in 1..Len(pf_files) |-> Pending]
    /\ pf_processing_results = <<>>
    /\ used_names = {}
    /\ pf_rename_pc = "idle" /\ pf_new_filename = <<>> /\ pf_rename_results = <<>>

otherVarsOfFixed == <<sanVars, apkVars, ipaVars, iconVars, nameVars, batchVars, tgtVars, wsVars, anVars, apkIconVars, poolVars, fipaVars>>

\* a pool worker returns from process_file_metadata, or dies and the future
\* holds the exception
FixedWorkerFinish(i) ==
    /\ pf_pc = "analyze"
    /\ pf_worker[i] = "running"
    /\ \/ \E result \in FixedResults(pf_files[i]) :
             pf_future' = [pf_future EXCEPT ![i] = result]
       \/ pf_future' = [pf_future EXCEPT ![i] = Raised]
    /\ pf_worker' = [pf_worker EXCEPT ![i] = "done"]
    /\ UNCHANGED <<pf_pc, pf_files, pf_disk, pf_processing_results, used_names,
                   pf_rename_pc, pf_new_filename, pf_rename_results, otherVarsOfFixed>>

\* as_completed yields a finished future: its result is appended, and an
\* invalid row when it holds an exception
FixedCollect(i) ==
    /\ pf_pc = "analyze"
    /\ pf_worker[i] = "done"
    /\ pf_processing_results' =
          Append(pf_processing_results,
                 IF pf_future[i] = Raised THEN PoolInvalid(pf_files[i]) ELSE pf_future[i])
    /\ pf_worker' = [pf_worker EXCEPT ![i] = "collected"]
    /\ UNCHANGED <<pf_pc, pf_files, pf_disk, pf_future, used_names, pf_rename_pc,
                   pf_new_filename, pf_rename_results, otherVarsOfFixed>>

\* the with block of the executor is left; used_names = set()
FixedEndAnalysis ==
    /\ pf_pc = "analyze"
    /\ AllCollected(pf_worker)
    /\ pf_pc' = "rename"
    /\ pf_rename_pc' = "next"
    /\ used_names' = {}
    /\ UNCHANGED <<pf_files, pf_disk, pf_worker, pf_future, pf_processing_results,
                   pf_new_filename, pf_rename_results, otherVarsOfFixed>>

\* the result the rename loop is at
FixedIndex == Len(pf_rename_results) + 1

\* result['status'] == 'valid' and not is_already_renamed(result['file'])
FixedRenamable(result) == result.status = "valid" /\ ~is_already_renamed(result.file)

\* a result that is invalid, or whose file carries a version pattern, is passed
\* on as it is
FixedSkip ==
    /\ pf_pc = "rename" /\ pf_rename_pc = "next"
    /\ FixedIndex <= Len(pf_processing_results)
    /\ ~FixedRenamable(pf_processing_results[FixedIndex])
    /\ pf_rename_results' = Append(pf_rename_results, pf_processing_results[FixedIndex])
    /\ UNCHANGED <<pf_pc, pf_files, pf_disk, pf_worker, pf_future, pf_processing_results,
                   used_names, pf_rename_pc, pf_new_filename, otherVarsOfFixed>>

\* the target name of a result is computed against used_names and added to it;
\* a result that has the name already is passed on
FixedAssign ==
    /\ pf_pc = "rename" /\ pf_rename_pc = "next"
    /\ FixedIndex <= Len(pf_processing_results)
    /\ FixedRenamable(pf_processing_results[FixedIndex])
    /\ LET result == pf_processing_results[FixedIndex]
           app_name == Placeheld(PoolAppName(result.label, result.package, result.file),
                                 result.file)
           target == get_unique_filename(PoolSafeName(app_name, result.version),
                                         ExtensionOf(result.file), used_names)
       IN  /\ pf_new_filename' = target
           /\ used_names' = Registered(used_names, target)
           /\ IF result.file # target
              THEN pf_rename_pc' = "attempt" /\ UNCHANGED pf_rename_results
              ELSE pf_rename_pc' = "next"
                   /\ pf_rename_results' = Append(pf_rename_results, result)
    /\ UNCHANGED <<pf_pc, pf_files, pf_disk, pf_worker, pf_future, pf_processing_results,
                   otherVarsOfFixed>>

\* the attempts of os.rename: one succeeds, and a file that had the target name
\* is replaced, or the last one raises and the result is made invalid
FixedAttempt ==
    /\ pf_pc = "rename" /\ pf_rename_pc = "attempt"
    /\ LET result == pf_processing_results[FixedIndex]
       IN  \/ /\ result.file \in DOMAIN pf_disk
              /\ pf_disk' = Renamed(pf_disk, result.file, pf_new_filename)
              /\ pf_rename_results' =
                    Append(pf_rename_results, [result EXCEPT !.file = pf_new_filename])
           \/ /\ pf_rename_results' = Append(pf_rename_results, GiveUp(result))
              /\ UNCHANGED pf_disk
    /\ pf_rename_pc' = "next"
    /\ UNCHANGED <<pf_pc, pf_files, pf_worker, pf_future, pf_processing_results,
                   used_names, pf_new_filename, otherVarsOfFixed>>

\* the rename loop is through with every result; the icons are extracted and
\* the report is written
FixedReport ==
    /\ pf_pc = "rename" /\ pf_rename_pc = "next"
    /\ FixedIndex > Len(pf_processing_results)
    /\ pf_pc' = "done"
    /\ UNCHANGED <<pf_files, pf_disk, pf_worker, pf_future, pf_processing_results,
                   used_names, pf_rename_pc, pf_new_filename, pf_rename_results,
                   otherVarsOfFixed>>

FixedNext ==
    \/ \E i \in DOMAIN pf_worker : FixedWorkerFinish(i)
    \/ \E i \in DOMAIN pf_worker : FixedCollect(i)
    \/ FixedEndAnalysis
    \/ FixedSkip
    \/ FixedAssign
    \/ FixedAttempt
    \/ FixedReport

\* the specification of one run of main of p_fixed.py
FixedSpecInit ==
    /\ FixedInit /\ SanIdle /\ ApkIdle /\ IpaIdle /\ IconIdle /\ NameIdle /\ BatchIdle
    /\ TgtIdle /\ WsIdle /\ AnIdle /\ ApkIconIdle /\ PoolIdle /\ FipaIdle

SpecFixed == FixedSpecInit /\ [][FixedNext]_vars

\* C26: a rename never replaces a package file: the target given to os.rename
\* is never the name of a file that is in the directory, a file the rename loop
\* skips for its version pattern included, and the content of every listed file
\* stays in the directory.
C26_NoReplacedFile ==
    /\ pf_rename_pc = "attempt" => pf_new_filename \notin DOMAIN pf_disk
    /\ \A i \in DOMAIN pf_files : \E n \in DOMAIN pf_disk : pf_disk[n] = i

-----------------------------------------------------------------------------
(* Properties of one batch run *)

\* whether the rename loop gave up on a result after max_retries attempts
RenameFailed(result) == result.status = "invalid" /\ result.confidence >= 1

\* C2: after phase 2, no two results of the batch have the same file name.
C2_UniqueFinalNames ==
    pc \in {"icons", "done"} =>
        \A a, b \in 1..Len(rename_results) :
            a # b => rename_results[a].file # rename_results[b].file

\* two packages of the same kind that resolved to the same name and version
\* were both renamed, to different names
C2_Witness ==
    /\ pc = "done"
    /\ \E a, b \in 1..Len(rename_results) :
          /\ a # b
          /\ rename_results[a].status = "valid" /\ rename_results[b].status = "valid"
          /\ rename_results[a].name = <<"G">> /\ rename_results[b].name = <<"G">>
          /\ rename_results[a].version = rename_results[b].version
          /\ ExtensionOf(rename_results[a].file) = ExtensionOf(rename_results[b].file)
          /\ rename_results[a].file \notin Range(files_to_process)
          /\ rename_results[b].file \notin Range(files_to_process)
          /\ rename_results[a].file # rename_results[b].file

\* the names the files get when the results are renamed in listing order and no
\* rename fails: the name of the file at index i and after, given the registry
\* and the names of the files before it
RECURSIVE ListingOrderNames(_, _, _)
ListingOrderNames(i, registry, names) ==
    IF i > Len(files_to_process) THEN names
    ELSE IF future[i].status \in {"pending", "raised"} \/ ~Renamable(future[i])
         THEN ListingOrderNames(i + 1, registry, Append(names, files_to_process[i]))
         ELSE LET target == get_unique_filename(SafeName(future[i]),
                                                ExtensionOf(future[i].file), registry)
              IN  ListingOrderNames(i + 1, registry \cup {target}, Append(names, target))

\* C4: the names phase 2 assigns do not depend on the order in which the
\* workers finish: when no rename failed, every file has the name it gets when
\* the results are renamed in listing order.
C4_OrderIndependent ==
    pc = "done" /\ (\A k \in 1..Len(rename_results) : ~RenameFailed(rename_results[k])) =>
        LET names == ListingOrderNames(1, Range(files_to_process), <<>>)
        IN  \A i \in 1..Len(files_to_process) :
                names[i] \in DOMAIN disk /\ disk[names[i]] = i

\* C5: while a worker result is not yet collected no file is renamed and the
\* registry is empty; the rename loop and the icon loop run only when every
\* future was collected; the icon loop runs only when the rename loop is through
\* with every result.
C5_PhasesOrdered ==
    /\ (\E i \in DOMAIN worker : worker[i] # "collected") =>
          /\ pc = "analyze"
          /\ disk = DiskOf(files_to_process)
          /\ existing_files = {}
          /\ rename_results = <<>>
    /\ pc \in {"analyze", "seed"} =>
          disk = DiskOf(files_to_process) /\ existing_files = {} /\ rename_pc = "idle"
    /\ pc \in {"analyze", "seed", "rename"} => icon_j = 0 /\ DOMAIN icons_dir = {}
    /\ pc \in {"icons", "done"} =>
          Len(rename_results) = Len(processing_results) /\ rename_pc = "next"

\* an icon was extracted from a renamed file, of a batch of two files
C5_Witness ==
    /\ pc = "icons"
    /\ Len(files_to_process) = 2
    /\ disk # DiskOf(files_to_process)
    /\ DOMAIN icons_dir # {}

OnDiskAs(result, i) == result.file \in DOMAIN disk /\ disk[result.file] = i

\* C11: the rename of one file is attempted at most max_retries times and the
\* attempts stop at the first success; when the last attempt fails the result
\* becomes invalid, keeps its file name, the directory is left as it is, and
\* the loop goes on to the next result; a result the loop gave up on still has
\* the name it was listed under, and the file is still in the directory under
\* that name.
C11_BoundedRetries ==
    /\ [](rename_pc = "attempt" => attempt < max_retries)
    /\ [](\A k \in 1..Len(rename_results) :
             RenameFailed(rename_results[k]) =>
                 \E i \in 1..Len(files_to_process) :
                     /\ rename_results[k].file = files_to_process[i]
                     /\ OnDiskAs(rename_results[k], i))
    /\ [][ rename_pc = "attempt" =>
             LET result == processing_results[CurrentIndex]
             IN  /\ disk' # disk =>
                       /\ rename_pc' = "next"
                       /\ rename_results' =
                             Append(rename_results, [result EXCEPT !.file = new_filename])
                       /\ new_filename \in DOMAIN disk' /\ result.file \notin DOMAIN disk'
                 /\ disk' = disk /\ attempt < max_retries - 1 =>
                       /\ attempt' = attempt + 1
                       /\ rename_pc' = "attempt" /\ rename_results' = rename_results
                 /\ disk' = disk /\ attempt = max_retries - 1 =>
                       /\ rename_pc' = "next"
                       /\ Len(rename_results') = Len(rename_results) + 1
                       /\ rename_results'[CurrentIndex].status = "invalid"
                       /\ rename_results'[CurrentIndex].file = result.file
                       /\ result.file \in DOMAIN disk'
       ]_vars

\* the loop gave up on the first result, which kept its name, and renamed the
\* second
C11_Witness ==
    /\ pc = "done"
    /\ Len(rename_results) = 2
    /\ RenameFailed(rename_results[1])
    /\ rename_results[1].file \in Range(files_to_process)
    /\ rename_results[2].status = "valid"
    /\ rename_results[2].file \notin Range(files_to_process)
    /\ rename_results[2].file \in DOMAIN disk

\* the rows of the final results that belong to the file listed at index i
RowsOf(i) == {k \in 1..Len(rename_results) : OnDiskAs(rename_results[k], i)}

\* C12: when the batch run is complete, every enumerated file has exactly one
\* row in the final results, whatever happened to it (failed extraction,
\* exception of its worker, failed rename): none is dropped, none is there twice.
C12_EveryFileOneRow ==
    pc = "done" =>
        /\ Len(rename_results) = Len(files_to_process)
        /\ \A i \in 1..Len(files_to_process) : Cardinality(RowsOf(i)) = 1

\* whether the file listed at index i is an Apple archive in which
\* extract_ipa_metadata found no Info.plist entry (it returned None)
NoBundle(i) == EndsWith(files_to_process[i], DotIpa) /\ future[i].status = "invalid"

\* C13: an Apple archive without an Info.plist entry has a result with status
\* invalid, empty metadata and confidence 0; the file keeps its name in the
\* directory, no icon is written from it, and when the run is complete the
\* result is in the final results once, with status invalid and the name the
\* file was listed under.
C13_NoBundleLeftAlone ==
    \A i \in 1..Len(files_to_process) :
        NoBundle(i) =>
            /\ future[i].name = Empty /\ future[i].version = Empty
            /\ future[i].package = Empty /\ future[i].confidence = 0
            /\ future[i].file = files_to_process[i]
            /\ files_to_process[i] \in DOMAIN disk /\ disk[files_to_process[i]] = i
            /\ \A n \in DOMAIN icons_dir : icons_dir[n] # i
            /\ pc = "done" =>
                  /\ Cardinality(RowsOf(i)) = 1
                  /\ \A k \in RowsOf(i) :
                        /\ rename_results[k].status = "invalid"
                        /\ rename_results[k].file = files_to_process[i]

\* the run is complete for an Apple archive without an Info.plist entry and a
\* second file, which was renamed and had its icon extracted
C13_Witness ==
    /\ pc = "done"
    /\ Len(files_to_process) = 2
    /\ \E i, j \in 1..2 :
          /\ NoBundle(i)
          /\ files_to_process[j] \notin DOMAIN disk
          /\ \E n \in DOMAIN icons_dir : icons_dir[n] = j


\* whether the name a listed file has is the target name of its result
HasTargetName(i) ==
    /\ future[i] \notin {Pending, Raised}
    /\ Renamable(future[i])
    /\ files_to_process[i]
          = SafeName(future[i]) \o ExtensionOf(files_to_process[i])

\* C24: a valid file whose name is already its target name '<sanitized name>
\* v<version><ext>' is never renamed: it stays in the directory under that
\* name, so a second run on the outcome of a first run renames nothing.
C24_SecondRunRenamesNothing ==
    \A i \in DOMAIN files_to_process :
        HasTargetName(i) =>
            /\ files_to_process[i] \in DOMAIN disk
            /\ disk[files_to_process[i]] = i


BaseOf(name) == SubSeq(name, 1, Len(name) - 8)

SuffixesOf(name) ==
    {n \in 1..9 : Len(name) >= 8 /\ name = Numbered(BaseOf(name), n, ExtensionOf(name))}

\* C27: at the end of a batch, a file that was renamed to 'B (n)<ext>' with
\* n >= 1 has 'B<ext>' and every 'B (k)<ext>' with 1 <= k < n beside it in the
\* directory, and every name the registry holds is the name of a file of the
\* directory.
C27_SuffixesAgainstRealNames ==
    pc = "done" =>
        /\ \A name \in DOMAIN disk :
              files_to_process[disk[name]] # name =>
                 \A n \in SuffixesOf(name) :
                    /\ (BaseOf(name) \o ExtensionOf(name)) \in DOMAIN disk
                    /\ \A k \in 1..(n - 1) :
                          Numbered(BaseOf(name), k, ExtensionOf(name)) \in DOMAIN disk
        /\ existing_files \subseteq DOMAIN disk


\* C28: no two packages of one batch have their icons written to the same
\* path of the icons directory: an icon that is written never takes the path
\* of an icon written before it.
C28_DistinctIconPaths ==
    [][icons_dir' # icons_dir => DOMAIN icons_dir' # DOMAIN icons_dir]_vars

=============================================================================
